---- MODULE Spec2Model ----
(***************************************************************************)
(* Stdio continuity protocol of pdum.criu.goblins: checkpoint (freeze,     *)
(* freeze_async) and resume (thaw, thaw_async) of a pipe-connected         *)
(* process, with the descriptor table of the calling process, the          *)
(* pidfiles of the image directory and the asyncio event loop.            *)
(***************************************************************************)
EXTENDS Integers, Sequences, FiniteSets, TLC

(* ------------------------------------------------------------------ *)
(* Bounds of the model                                                 *)
(* ------------------------------------------------------------------ *)

\* Last value of int(time.time()) the wall clock reaches.
MaxClock == 1

\* Number of 0.02 s polls that fit before the deadline of _wait_for_pidfile.
PollLimit == 2

\* Number of calls of build_sync_streams on one substrate.
MaxTakes == 2

\* The resume calls: two callers, each a thread (thaw) or a task (thaw_async).
Calls == {1, 2}

(* ------------------------------------------------------------------ *)
(* Values                                                              *)
(* ------------------------------------------------------------------ *)

\* Python's None: an optional value is the empty set or a singleton.
None == {}

Some(x) == {x}

The(S) == CHOOSE x \in S : TRUE

StreamNames == <<"stdin", "stdout", "stderr">>

\* Descriptors 0, 1, 2 of the calling process: its own standard streams.
StdFds == {0, 1, 2}

\* A link target or pipe identity "pipe:[<ino>]" as its lexical pieces.
PipeTarget(ino) == <<"pipe:[", ino, "]">>

\* The identities recorded for the checkpointed process.
TripleABC == [stdin |-> PipeTarget("A"), stdout |-> PipeTarget("B"), stderr |-> PipeTarget("C")]

\* An empty dict.
EmptyDict == [k \in {} |-> None]

\* The characters a pidfile holds.
Digits == {"1", "2"}

Whitespace == {" ", "\n"}

(* ------------------------------------------------------------------ *)
(* State                                                               *)
(* ------------------------------------------------------------------ *)
VARIABLES
    pc,          \* [Calls -> position of the call in thaw / thaw_async]
    mode,        \* [Calls -> "sync" | "async"]
    ctx,         \* [Calls -> None | Some(_ThawContext)]
    pipes,       \* [Calls -> None | Some(_StdioPipes)]
    streams,     \* [Calls -> the caller's stream objects, by stream name]
    handle,      \* [Calls -> None | Some(GoblinProcess / AsyncGoblinProcess)]
    error,       \* [Calls -> None | Some(the exception the call raised)]
    engine,      \* [Calls -> the restore engine invocation of the call]
    pid,         \* [Calls -> None | Some(pid read from the pidfile)]
    polls,       \* [Calls -> iterations of the polling loop so far]
    trace,       \* [Calls -> what the identity resolution of the call ran]
    closes,      \* [Calls -> the close() calls of the caller on the streams of the handle]
    open,        \* descriptors open in the calling process
    inheritable, \* descriptors marked inheritable
    owner,       \* [open descriptor -> the call whose os.pipe() made it, 0: none]
    alloc,       \* [Calls -> ledger of its substrate: the pipes made, the descriptors by role,
                 \*  those os.close was called on, and the takes of the retained ends]
    files,       \* [timestamp -> None | Some(text of goblin-thaw.<timestamp>.pid)]
    clock,       \* int(time.time())
    loop,        \* None | Some(the task running on the event loop)
    otherTask,   \* position of another task of the event loop: "reading" | "writing"
    dirExists,   \* the images directory exists
    metaFile,    \* None | Some(text of .pdum_goblin_meta.json)
    images,      \* the image set: the crit tool, fdinfo-*.img and files.img as crit shows them
    fz,          \* the checkpoint call (freeze / freeze_async)
    target,      \* [0..2 -> None | Some(link target of /proc/<pid>/fd/<n>)]
    rcmd,        \* a resolve_command call: its argument, os.environ, the executables, its outcome
    drun,        \* a run of the doctor command
    cshow,       \* a call of _crit_show_json: what the tool does per variant, and the outcome
    beam         \* a run of the beam command

resumeVars == <<pc, mode, ctx, pipes, streams, handle, error, engine, pid, polls, trace, closes,
                open, inheritable, owner, alloc, files, clock, loop, otherTask>>

storeVars == <<dirExists, metaFile, images>>

freezeVars == <<fz, target>>

toolVars == <<rcmd, drun, cshow, beam>>

vars == <<resumeVars, storeVars, freezeVars, toolVars>>

(* ------------------------------------------------------------------ *)
(* Descriptor table of the calling process                             *)
(* ------------------------------------------------------------------ *)

\* The lowest descriptor number not in use: what the kernel hands out next.
LowestFree(o) == CHOOSE n \in 0..Cardinality(o) : n \notin o /\ \A m \in 0..(n - 1) : m \in o

\* os.pipe(): the read end and the write end, the two lowest free descriptors.
os_pipe(o) ==
    LET r == LowestFree(o)
        w == LowestFree(o \cup {r})
    IN  <<r, w>>

\* os.close(fd); an OSError (descriptor not open) is swallowed by every caller.
os_close(o, fds) == o \ fds

(* ------------------------------------------------------------------ *)
(* _StdioPipes: the continuity substrate                               *)
(* ------------------------------------------------------------------ *)

\* Whether the constructor can index pipe_ids by every stream name.
HasAllStreams(pipe_ids) == \A i \in 1..3 : StreamNames[i] \in DOMAIN pipe_ids

\* Faulty variant: the descriptor is left as os.pipe() made it, not inheritable.
make_inheritable_noop(inh, fd) == inh

\* _make_inheritable: os.set_inheritable(fd, True) on the set inh of inheritable
\* descriptors.
make_inheritable(inh, fd) == inh \cup {fd}

\* Faulty variant: stdout and stderr are bound to each other's identity.
inherit_args_crossed(r_stdin, w_stdout, w_stderr, pipe_ids) ==
    << <<r_stdin, pipe_ids.stdin>>, <<w_stdout, pipe_ids.stderr>>, <<w_stderr, pipe_ids.stdout>> >>

\* The --inherit-fd arguments _create_pipes builds from inherit_map, a dict
\* that keeps its insertion order: one <<descriptor, pipe identity>> per stream.
inherit_args_of(r_stdin, w_stdout, w_stderr, pipe_ids) ==
    << <<r_stdin, pipe_ids.stdin>>, <<w_stdout, pipe_ids.stdout>>, <<w_stderr, pipe_ids.stderr>> >>

\* _StdioPipes.__init__ and _create_pipes with open set o: the new object, the
\* open set and the descriptors made inheritable. The three pipes are created
\* before pipe_ids is indexed, so a KeyError leaves them open and unrecorded.
create_pipes(pipe_ids, o) ==
    LET p0 == os_pipe(o)
        o1 == o \cup {p0[1], p0[2]}
        p1 == os_pipe(o1)
        o2 == o1 \cup {p1[1], p1[2]}
        p2 == os_pipe(o2)
        o3 == o2 \cup {p2[1], p2[2]}
        r_stdin  == p0[1]
        w_stdin  == p0[2]
        r_stdout == p1[1]
        w_stdout == p1[2]
        r_stderr == p2[1]
        w_stderr == p2[2]
    IN  [ raised |-> ~HasAllStreams(pipe_ids),
          open |-> o3,
          inherit |-> make_inheritable(make_inheritable(make_inheritable({}, r_stdin), w_stdout), w_stderr),
          made |-> <<p0, p1, p2>>,
          obj |-> IF HasAllStreams(pipe_ids)
                  THEN Some([ pipe_ids |-> pipe_ids,
                              parent_stdin_fd |-> Some(w_stdin),
                              parent_stdout_fd |-> Some(r_stdout),
                              parent_stderr_fd |-> Some(r_stderr),
                              child_fds |-> <<r_stdin, w_stdout, w_stderr>>,
                              inherit_args |-> inherit_args_of(r_stdin, w_stdout, w_stderr,
                                                               pipe_ids) ])
                  ELSE None ]

\* The retained descriptors the object still records.
ParentFds(p) == p.parent_stdin_fd \cup p.parent_stdout_fd \cup p.parent_stderr_fd

\* The donated descriptors the object still records.
ChildFds(p) == {p.child_fds[i] : i \in 1..Len(p.child_fds)}

\* Faulty variant: the list is cleared and no descriptor is closed.
close_child_fds_no_close(p, o) ==
    [ obj |-> [p EXCEPT !.child_fds = <<>>], open |-> o, closed |-> {}, swallowed |-> {},
      oserror |-> FALSE ]

\* _StdioPipes.close_child_fds: closes every recorded donated end, clears the list.
\* swallowed: the descriptors on which os.close raised OSError; oserror: whether
\* an OSError left the method.
close_child_fds(p, o) ==
    [ obj |-> [p EXCEPT !.child_fds = <<>>],
      open |-> os_close(o, ChildFds(p)),
      closed |-> ChildFds(p),
      swallowed |-> ChildFds(p) \ o,
      oserror |-> FALSE ]

\* Faulty variant: the retained ends are closed and stay recorded.
close_parent_ends_keep(p, o) ==
    [ obj |-> p, open |-> os_close(o, ParentFds(p)), closed |-> ParentFds(p),
      swallowed |-> ParentFds(p) \ o, oserror |-> FALSE ]

\* Faulty variant: the OSError of os.close is not caught; the loop ends at the
\* first descriptor that fails and nothing is forgotten.
close_parent_ends_raise(p, o) ==
    LET ends == <<p.parent_stdin_fd, p.parent_stdout_fd, p.parent_stderr_fd>>
        bad == {i \in 1..3 : ends[i] # None /\ The(ends[i]) \notin o}
        first == IF bad = {} THEN 4 ELSE CHOOSE i \in bad : \A j \in bad : i <= j
        done == UNION {ends[i] : i \in {j \in 1..3 : j < first}}
    IN  IF bad = {}
        THEN [ obj |-> [p EXCEPT !.parent_stdin_fd = None,
                                 !.parent_stdout_fd = None,
                                 !.parent_stderr_fd = None],
               open |-> os_close(o, ParentFds(p)), closed |-> ParentFds(p),
               swallowed |-> {}, oserror |-> FALSE ]
        ELSE [ obj |-> p, open |-> os_close(o, done), closed |-> done \cup ends[first],
               swallowed |-> {}, oserror |-> TRUE ]

\* _StdioPipes.close_parent_ends: closes every retained end still recorded and
\* forgets them. closed: the descriptors os.close was called on.
close_parent_ends(p, o) ==
    [ obj |-> [p EXCEPT !.parent_stdin_fd = None,
                        !.parent_stdout_fd = None,
                        !.parent_stderr_fd = None],
      open |-> os_close(o, ParentFds(p)),
      closed |-> ParentFds(p),
      swallowed |-> ParentFds(p) \ o,
      oserror |-> FALSE ]

\* The caller holds no stream yet.
NoStreams == [stdin |-> None, stdout |-> None, stderr |-> None]

\* Faulty variant: the retained ends stay recorded after they were handed out.
build_sync_streams_keep(p) ==
    IF None \in {p.parent_stdin_fd, p.parent_stdout_fd, p.parent_stderr_fd}
    THEN [ raised |-> TRUE, obj |-> p, streams |-> NoStreams ]
    ELSE [ raised |-> FALSE,
           obj |-> p,
           streams |-> [ stdin  |-> Some([fd |-> The(p.parent_stdin_fd), kind |-> "wb", closefd |-> TRUE]),
                         stdout |-> Some([fd |-> The(p.parent_stdout_fd), kind |-> "rb", closefd |-> TRUE]),
                         stderr |-> Some([fd |-> The(p.parent_stderr_fd), kind |-> "rb", closefd |-> TRUE]) ] ]

\* _StdioPipes.build_sync_streams: raises once any retained end is None; otherwise
\* wraps each retained descriptor in a file object that owns it and forgets them.
build_sync_streams(p) ==
    IF None \in {p.parent_stdin_fd, p.parent_stdout_fd, p.parent_stderr_fd}
    THEN [ raised |-> TRUE, obj |-> p, streams |-> NoStreams ]
    ELSE [ raised |-> FALSE,
           obj |-> [p EXCEPT !.parent_stdin_fd = None,
                             !.parent_stdout_fd = None,
                             !.parent_stderr_fd = None],
           streams |-> [ stdin  |-> Some([fd |-> The(p.parent_stdin_fd), kind |-> "wb", closefd |-> TRUE]),
                         stdout |-> Some([fd |-> The(p.parent_stdout_fd), kind |-> "rb", closefd |-> TRUE]),
                         stderr |-> Some([fd |-> The(p.parent_stderr_fd), kind |-> "rb", closefd |-> TRUE]) ] ]

\* _make_writer_from_fd / _make_reader_from_fd: os.fdopen(fd, ..., closefd=False)
\* connected to the loop; the substrate's record of the descriptor is untouched.
make_stream_from_fd(fd, kind) == Some([fd |-> fd, kind |-> kind, closefd |-> FALSE])

(* ------------------------------------------------------------------ *)
(* Pidfile                                                             *)
(* ------------------------------------------------------------------ *)

RECURSIVE lstrip(_)
lstrip(t) == IF t # <<>> /\ Head(t) \in Whitespace THEN lstrip(Tail(t)) ELSE t

RECURSIVE rstrip(_)
rstrip(t) == IF t # <<>> /\ t[Len(t)] \in Whitespace THEN rstrip(SubSeq(t, 1, Len(t) - 1)) ELSE t

\* str.strip()
strip(t) == rstrip(lstrip(t))

\* str.isdigit(): non-empty and decimal digits only.
isdigit(t) == t # <<>> /\ \A i \in 1..Len(t) : t[i] \in Digits

DigitValue(c) == IF c = "1" THEN 1 ELSE 2

RECURSIVE int_of(_)
\* int(content) of a string of digits.
int_of(t) == IF t = <<>> THEN 0 ELSE 10 * int_of(SubSeq(t, 1, Len(t) - 1)) + DigitValue(t[Len(t)])

\* One iteration of the loop of _wait_for_pidfile on the file f (None: no such
\* file): the pid it returns, or None when it goes on to sleep.
read_pidfile(f) ==
    IF f = None THEN None
    ELSE LET content == strip(The(f))
         IN  IF isdigit(content) THEN Some(int_of(content)) ELSE None

\* Faulty variant: the loop has no deadline.
deadline_never(n) == FALSE

\* while time.time() < deadline, after n iterations that each slept: the
\* deadline has passed once the iterations have used up the timeout.
deadline_passed(n) == n >= PollLimit

\* The text the restore engine of call r writes: the id of the process it restored.
EnginePidText(r) == <<IF r = 1 THEN "1" ELSE "2", "\n">>

\* What a restore engine invocation may leave in its pidfile.
EngineWrites(r) == {None, Some(EnginePidText(r)), Some(<<"x">>)}

(* ------------------------------------------------------------------ *)
(* Checkpoint metadata store and identity recovery                     *)
(* ------------------------------------------------------------------ *)

\* The text of a JSON document as its lexical tokens; every token is a tuple
\* whose first element is its kind.
JOpen == <<"{">>

JClose == <<"}">>

JKey(k) == <<"key", k>>

JStr(s) == <<"str", s>>

JInt(n) == <<"int", n>>

\* The members "stdin", "stdout", "stderr" of a dict of pipe identities, from the
\* n-th on, in insertion order.
RECURSIVE dump_members(_, _)
dump_members(d, n) ==
    IF n > Len(StreamNames) THEN <<>>
    ELSE (IF StreamNames[n] \in DOMAIN d
          THEN <<JKey(StreamNames[n]), JStr(d[StreamNames[n]])>>
          ELSE <<>>) \o dump_members(d, n + 1)

\* json.dumps(meta, indent=2) of the dict _record_freeze_metadata builds.
json_dumps(meta) ==
    <<JOpen, JKey("pid"), JInt(meta.pid), JKey("pipe_ids"), JOpen>>
        \o dump_members(meta.pipe_ids, 1)
        \o <<JClose, JKey("captured_at"), JStr(meta.captured_at), JClose>>

\* json.loads, by recursive descent from token i: a scalar, or an object whose
\* members follow from token i on (members = TRUE, acc the members read so far).
\* Returns the value and the index of the token after it.
RECURSIVE json_parse(_, _, _, _)
json_parse(text, i, members, acc) ==
    IF i > Len(text) THEN [ok |-> FALSE, val |-> EmptyDict, next |-> i]
    ELSE IF members
    THEN IF text[i][1] = "}" THEN [ok |-> TRUE, val |-> acc, next |-> i + 1]
         ELSE IF text[i][1] # "key" THEN [ok |-> FALSE, val |-> EmptyDict, next |-> i]
         ELSE LET v == json_parse(text, i + 1, FALSE, EmptyDict)
              IN  IF ~v.ok THEN v
                  ELSE json_parse(text, v.next, TRUE, (text[i][2] :> v.val) @@ acc)
    ELSE IF text[i][1] \in {"str", "int"} THEN [ok |-> TRUE, val |-> text[i][2], next |-> i + 1]
    ELSE IF text[i][1] = "{" THEN json_parse(text, i + 1, TRUE, EmptyDict)
    ELSE [ok |-> FALSE, val |-> EmptyDict, next |-> i]

\* json.loads(text): the document must be one value and nothing more.
json_loads(text) ==
    LET v == json_parse(text, 1, FALSE, EmptyDict)
    IN  IF v.ok /\ v.next = Len(text) + 1
        THEN [raised |-> FALSE, val |-> v.val]
        ELSE [raised |-> TRUE, val |-> EmptyDict]

\* Faulty variant: the file is never read.
load_metadata_absent(mf) == [raised |-> FALSE, val |-> EmptyDict]

\* _load_metadata: {} when the file is missing, json.loads of its text otherwise.
load_metadata(mf) ==
    IF mf = None THEN [raised |-> FALSE, val |-> EmptyDict] ELSE json_loads(The(mf))

\* Parsed JSON values of the crit output, tagged by their Python type.
JNull == [t |-> "null", v |-> 0]

JNum(n) == [t |-> "int", v |-> n]

JText(s) == [t |-> "str", v |-> s]

JList(xs) == [t |-> "list", v |-> xs]

\* A dict keeps its items in insertion order: a sequence of <<key, value>>.
JDict(items) == [t |-> "dict", v |-> items]

\* bool(v)
Truthy(x) ==
    IF x.t = "null" THEN FALSE
    ELSE IF x.t = "int" THEN x.v # 0
    ELSE x.v # <<>>

\* a or b
Or(a, b) == IF Truthy(a) THEN a ELSE b

\* a == b, for dict keys
KeyEq(a, b) == a.t = b.t /\ a.v = b.v

\* entry.get(key): the value of the item with that key, None when there is none.
RECURSIVE dict_get(_, _)
dict_get(items, key) ==
    IF items = <<>> THEN JNull
    ELSE IF Head(items)[1] = key THEN Head(items)[2]
    ELSE dict_get(Tail(items), key)

\* _find_pipe_value on the members of a list or the values of a dict, in order.
RECURSIVE find_pipe_value(_)
RECURSIVE find_in_members(_, _)
find_in_members(xs, isDict) ==
    IF xs = <<>> THEN None
    ELSE LET found == find_pipe_value(IF isDict THEN Head(xs)[2] ELSE Head(xs))
         IN  IF found # None THEN found ELSE find_in_members(Tail(xs), isDict)

\* _find_pipe_value: the first string starting with "pipe:[" in obj, depth first.
find_pipe_value(obj) ==
    IF obj.t = "str" /\ obj.v # <<>> /\ Head(obj.v) = "pipe:[" THEN Some(obj.v)
    ELSE IF obj.t = "dict" THEN find_in_members(obj.v, TRUE)
    ELSE IF obj.t = "list" THEN find_in_members(obj.v, FALSE)
    ELSE None

\* The first loop of _pipe_ids_from_images: fd_to_id after entries i.. of the
\* descriptor table, starting from acc.
RECURSIVE fd_to_id(_, _)
fd_to_id(entries, acc) ==
    IF entries = <<>> THEN acc
    ELSE LET entry   == Head(entries)
             fdnum   == dict_get(entry, "fd")
             file_id == Or(Or(dict_get(entry, "id"), dict_get(entry, "file_id")),
                           dict_get(entry, "id_id"))
         IN  fd_to_id(Tail(entries),
                      IF fdnum.t # "null" /\ file_id.t # "null"
                      THEN (fdnum.v :> file_id) @@ acc
                      ELSE acc)

\* The second loop of _pipe_ids_from_images followed by id_to_pipe.get(id): the
\* value stored last under that key, None when there is none.
RECURSIVE id_to_pipe_get(_, _, _)
id_to_pipe_get(entries, id, acc) ==
    IF entries = <<>> THEN acc
    ELSE LET entry        == Head(entries)
             candidate_id == Or(Or(dict_get(entry, "id"), dict_get(entry, "file_id")),
                                dict_get(entry, "ino_id"))
             pipe_value   == find_pipe_value(JDict(entry))
         IN  id_to_pipe_get(Tail(entries), id,
                            IF Truthy(candidate_id) /\ pipe_value # None /\ KeyEq(candidate_id, id)
                            THEN pipe_value
                            ELSE acc)

\* The failure of _pipe_ids_from_images after n invocations of crit.
RecoverFailed(why, n) == [raised |-> TRUE, why |-> why, pipe_ids |-> EmptyDict, crit_calls |-> n]

\* Faulty variant: an incomplete join is let through.
joins_complete_unchecked(found) == TRUE

\* stdin_pipe and stdout_pipe and stderr_pipe
joins_complete(found) == \A k \in StdFds : found[k] # None

\* _pipe_ids_from_images: the triple joined from the descriptor table
\* (fdinfo-*.img) and the file objects (files.img) of the image set, or a failure.
pipe_ids_from_images(img) ==
    IF img.crit = "missing" THEN RecoverFailed("crit utility not found", 0)
    ELSE IF img.fdinfo = None THEN RecoverFailed("no fdinfo-*.img present", 0)
    ELSE IF img.crit = "broken" THEN RecoverFailed("crit show failed", 1)
    ELSE LET tbl == fd_to_id(The(img.fdinfo), EmptyDict)
             ids == [k \in StdFds |-> IF k \in DOMAIN tbl THEN tbl[k] ELSE JNull]
         IN  IF ~(\A k \in StdFds : Truthy(ids[k]))
             THEN RecoverFailed("unable to resolve fd ids from fdinfo image", 1)
             ELSE IF img.files = None THEN RecoverFailed("crit show failed", 2)
             ELSE LET found == [k \in StdFds |-> id_to_pipe_get(The(img.files), ids[k], None)]
                  IN  IF ~joins_complete(found)
                      THEN RecoverFailed("failed to map pipe ids from CRIU files image", 2)
                      ELSE [raised |-> FALSE, why |-> "",
                            pipe_ids |-> [name \in {StreamNames[k + 1] : k \in {j \in StdFds : found[j] # None}}
                                            |-> The(found[CHOOSE k \in StdFds : StreamNames[k + 1] = name])],
                            crit_calls |-> 2]

\* The identity resolution of _build_thaw_context: metadata first, images
\* otherwise. recovered and crit_calls tell whether _pipe_ids_from_images ran
\* and how often it ran crit.
resolve_pipe_ids(mf, img) ==
    LET meta == load_metadata(mf)
    IN  IF meta.raised
        THEN [raised |-> TRUE, kind |-> "JSONDecodeError", pipe_ids |-> EmptyDict,
              recovered |-> FALSE, crit_calls |-> 0]
        ELSE IF "pipe_ids" \notin DOMAIN meta.val
        THEN LET rec == pipe_ids_from_images(img)
             IN  [raised |-> rec.raised, kind |-> "IdentityRecoveryFailed", pipe_ids |-> rec.pipe_ids,
                  recovered |-> TRUE, crit_calls |-> rec.crit_calls]
        ELSE [raised |-> FALSE, kind |-> "", pipe_ids |-> meta.val.pipe_ids,
              recovered |-> FALSE, crit_calls |-> 0]

(* ------------------------------------------------------------------ *)
(* Resume driver                                                       *)
(* ------------------------------------------------------------------ *)

NoEngine == [state |-> "none", status |-> None, runs |-> 0, pass_fds |-> <<>>,
             closefrom |-> None, inherit_args |-> <<>>]

Err(kind, rc) == Some([kind |-> kind, returncode |-> rc])

\* What utils.tail_file does with the log of an engine: it returns its last
\* lines, or raises PermissionError or another OSError.
LogReads == {"ok", "PermissionError", "OSError"}

\* The try block of _handle_freeze_result: the tail of
\* the log, or the placeholder of the handler that caught the failure to read it.
log_tail_of(read) ==
    IF read = "ok" THEN <<"tail of the log">>
    ELSE IF read = "PermissionError" THEN <<"(log unreadable due to permission error)">>
    ELSE <<"(failed to read log: ", read, ")">>

\* Faulty variant: the exit status is ignored.
restore_failed_never(returncode) == FALSE

\* The test of _run_criu_restore on the engine's exit status.
restore_failed(returncode) == returncode # 0

\* Faulty variant: on status 0 the donated ends are left open.
restore_completed_keep_child(p, o, returncode) ==
    IF restore_failed(returncode)
    THEN [raised |-> TRUE] @@ close_parent_ends(p, o)
    ELSE [raised |-> FALSE, obj |-> p, open |-> o, closed |-> {}, swallowed |-> {},
          oserror |-> FALSE]

\* _run_criu_restore once subprocess.run has returned: on a non-zero status the
\* retained ends are closed and _handle_thaw_failure raises, which skips
\* close_child_fds; on status 0 the donated ends are closed.
restore_completed(p, o, returncode) ==
    IF restore_failed(returncode)
    THEN [raised |-> TRUE] @@ close_parent_ends(p, o)
    ELSE [raised |-> FALSE] @@ close_child_fds(p, o)

\* Faulty variant: the handler re-raises without closing anything.
thaw_unwind_missing(p, o) ==
    [ obj |-> p, open |-> o, closed |-> {}, swallowed |-> {}, oserror |-> FALSE ]

\* The exception handler of thaw and thaw_async: pipes.close_parent_ends(); raise.
thaw_unwind(p, o) == close_parent_ends(p, o)

\* The exception that leaves thaw or thaw_async after the unwind u: the primary
\* failure, or the OSError of a close that was not caught.
UnwindError(primary, u) == IF u.oserror THEN Err("OSError", None) ELSE primary

\* The event loop once task r has ended or awaits.
Release(r) == IF loop = Some(r) THEN None ELSE loop

\* Whether call r may take a step: a thread always, a task only on a free loop or
\* when it is the task running.
MayRun(r) == mode[r] = "sync" \/ loop \in {None, Some(r)}

Modes == {"sync", "async"}

\* Faulty variant: stdout and stderr are recorded under each other's name.
record_freeze_metadata_swapped(p, pipe_ids, now) ==
    [pid |-> p,
     pipe_ids |-> [stdin |-> pipe_ids.stdin, stdout |-> pipe_ids.stderr, stderr |-> pipe_ids.stdout],
     captured_at |-> now]

\* _record_freeze_metadata: the record written to .pdum_goblin_meta.json.
record_freeze_metadata(p, pipe_ids, now) == [pid |-> p, pipe_ids |-> pipe_ids, captured_at |-> now]

\* A checkpoint record left by an earlier freeze of process 1.
MetaOf(ids) == record_freeze_metadata(1, ids, 0)

\* A record whose triple lacks stderr.
PartialTriple == [stdin |-> PipeTarget("A"), stdout |-> PipeTarget("B")]

\* An entry of the descriptor table as crit shows it: descriptor f refers to
\* file object i, under the given key.
FdEntry(f, key, i) == << <<"fd", JNum(f)>>, <<key, JNum(i)>> >>

\* An entry of the file objects as crit shows it.
FileEntry(key, i, body) == << <<key, JNum(i)>>, <<"pipe", body>> >>

\* The description of a pipe that carries its identity string, and one that
\* carries the inode number only.
PipeBody(ino) == JDict(<< <<"name", JText(PipeTarget(ino))>> >>)

PlainBody == JDict(<< <<"pipe_id", JNum(7)>> >>)

\* The descriptor table of a process whose descriptors 0, 1, 2 are file objects 1, 2, 3.
FdTable123 == <<FdEntry(0, "id", 1), FdEntry(1, "id", 2), FdEntry(2, "id", 3)>>

\* An image set whose artifacts yield TripleABC, and one whose file objects
\* hold no pipe identity string.
ImgABC == [crit |-> "ok", fdinfo |-> Some(FdTable123),
           files |-> Some(<<FileEntry("id", 1, PipeBody("A")), FileEntry("id", 2, PipeBody("B")),
                            FileEntry("id", 3, PipeBody("C"))>>)]

ImgNoPipes == [crit |-> "ok", fdinfo |-> Some(FdTable123),
               files |-> Some(<<FileEntry("id", 1, PlainBody), FileEntry("id", 2, PlainBody),
                                FileEntry("id", 3, PlainBody)>>)]

\* A metadata file cut short: not a JSON document.
CorruptText == <<JOpen, JKey("pid")>>

\* The image directories resumed from: <<metadata file, image set>>.
Stores == { <<None, ImgNoPipes>>,
            <<None, ImgABC>>,
            <<Some(json_dumps(MetaOf(TripleABC))), ImgABC>>,
            <<Some(json_dumps(MetaOf(PartialTriple))), ImgABC>>,
            <<Some(CorruptText), ImgNoPipes>> }

\* No stream closed yet.
NoCloses == [closed |-> {}, again |-> {}, raised |-> FALSE]

\* Nothing resolved yet.
NoTrace == [loaded |-> FALSE, recovered |-> FALSE, crit_calls |-> 0, resolved |-> None]

\* Nothing allocated yet.
NoAlloc == [donated |-> {}, retained |-> {}, made |-> <<>>, closed |-> {}, reclosed |-> {},
            errored |-> {}, taken |-> 0, refused |-> 0]

\* The ledger a after the substrate has called os.close on the descriptors fds.
Ledger(a, fds) == [a EXCEPT !.closed = @ \cup fds, !.reclosed = @ \cup (fds \cap a.closed)]

\* The ledger a after the close operation with result c: the descriptors
\* os.close was called on, and those on which it raised.
LedgerOf(a, c) == [Ledger(a, c.closed) EXCEPT !.errored = @ \cup c.swallowed]

\* The owners of the descriptors of the open set o2: those already open keep
\* theirs, the new ones were made by call r.
Owners(ow, o2, r) == [fd \in o2 |-> IF fd \in DOMAIN ow THEN ow[fd] ELSE r]

\* The descriptors made for call r that are open in the calling process.
OpenOf(r) == {fd \in open : owner[fd] = r}

NoFreeze == [pc |-> "idle", mode |-> "sync", pid |-> 0, env |-> "ok", pipe_ids |-> EmptyDict,
             error |-> None, runs |-> 0, status |-> None, wrote |-> FALSE, logged |-> None]

\* No resolve_command call was made.
NoResolve == [pc |-> "none", executable |-> <<>>, environ |-> <<>>, installed |-> {},
              raised |-> None, value |-> None]

\* The doctor command was not run.
NoDoctor == [pc |-> "none", platform |-> <<>>, checkers |-> <<>>, called |-> <<>>,
             all_ok |-> TRUE, printed |-> <<>>, code |-> None]

\* No call of _crit_show_json was made.
NoCrit == [pc |-> "none", tool |-> <<>>, ran |-> <<>>, raised |-> FALSE, value |-> EmptyDict,
           message |-> <<>>]

\* The beam command was not run.
NoBeam == [pc |-> "none", input |-> <<>>, ran |-> <<>>, code |-> None, raised |-> None,
           watcher |-> None]

Init ==
    /\ pc = [r \in Calls |-> "idle"]
    /\ mode \in [Calls -> Modes]
    /\ ctx = [r \in Calls |-> None]
    /\ pipes = [r \in Calls |-> None]
    /\ streams = [r \in Calls |-> NoStreams]
    /\ handle = [r \in Calls |-> None]
    /\ error = [r \in Calls |-> None]
    /\ engine = [r \in Calls |-> NoEngine]
    /\ pid = [r \in Calls |-> None]
    /\ polls = [r \in Calls |-> 0]
    /\ trace = [r \in Calls |-> NoTrace]
    /\ closes = [r \in Calls |-> NoCloses]
    /\ open = StdFds
    /\ inheritable = {}
    /\ owner = [fd \in StdFds |-> 0]
    /\ alloc = [r \in Calls |-> NoAlloc]
    /\ files = [t \in 0..MaxClock |-> None]
    /\ clock = 0
    /\ loop = None
    /\ otherTask = "writing"
    /\ dirExists \in BOOLEAN
    /\ \E st \in Stores : metaFile = st[1] /\ images = st[2]
    /\ fz = NoFreeze
    /\ target = [n \in 0..2 |-> Some(TripleABC[StreamNames[n + 1]])]
    /\ rcmd = NoResolve
    /\ drun = NoDoctor
    /\ cshow = NoCrit
    /\ beam = NoBeam

\* thaw / thaw_async up to the return of _build_thaw_context.
ThawBegin(r) ==
    /\ pc[r] = "idle"
    /\ mode[r] = "async" => loop = None
    /\ \E toolsOk \in BOOLEAN, stampLater \in BOOLEAN :
        LET res  == resolve_pipe_ids(metaFile, images)
            logT == clock
            pidT == IF stampLater /\ clock < MaxClock THEN clock + 1 ELSE clock
            kind == IF ~dirExists THEN "ImagesDirMissing"
                    ELSE IF res.raised THEN res.kind
                    ELSE IF ~toolsOk THEN "CommandNotFound"
                    ELSE "ok"
        IN  IF kind = "ok"
            THEN /\ ctx' = [ctx EXCEPT ![r] = Some([pipe_ids |-> res.pipe_ids,
                                                    log_path |-> logT,
                                                    pidfile |-> pidT])]
                 /\ pc' = [pc EXCEPT ![r] = "ctx"]
                 /\ clock' = pidT
                 /\ loop' = IF mode[r] = "async" THEN Some(r) ELSE loop
                 /\ error' = error
            ELSE /\ error' = [error EXCEPT ![r] = Err(kind, None)]
                 /\ pc' = [pc EXCEPT ![r] = "failed"]
                 /\ UNCHANGED <<ctx, clock, loop>>
    /\ trace' = [trace EXCEPT ![r] =
                    IF ~dirExists THEN @
                    ELSE LET res == resolve_pipe_ids(metaFile, images)
                         IN  [loaded |-> TRUE, recovered |-> res.recovered,
                              crit_calls |-> res.crit_calls,
                              resolved |-> IF res.raised THEN None ELSE Some(res.pipe_ids)]]
    /\ UNCHANGED <<mode, pipes, streams, handle, engine, pid, polls, open, inheritable, owner, alloc,
                   files, otherTask, closes, storeVars, freezeVars, toolVars>>

\* _prepare_stdio_pipes(context.pipe_ids)
PrepareStdioPipes(r) ==
    /\ pc[r] = "ctx"
    /\ MayRun(r)
    /\ LET c == create_pipes(The(ctx[r]).pipe_ids, open)
       IN  /\ open' = c.open
           /\ inheritable' = inheritable \cup c.inherit
           /\ owner' = Owners(owner, c.open, r)
           /\ alloc' = [alloc EXCEPT ![r] = [NoAlloc EXCEPT !.donated = c.inherit,
                                                           !.retained = (c.open \ open) \ c.inherit,
                                                           !.made = c.made]]
           /\ pipes' = [pipes EXCEPT ![r] = c.obj]
           /\ IF c.raised
              THEN /\ error' = [error EXCEPT ![r] = Err("KeyError", None)]
                   /\ pc' = [pc EXCEPT ![r] = "failed"]
                   /\ loop' = Release(r)
              ELSE /\ pc' = [pc EXCEPT ![r] = "built"]
                   /\ UNCHANGED <<error, loop>>
    /\ UNCHANGED <<mode, ctx, streams, handle, engine, pid, polls, files, clock,
                   otherTask, trace, closes, storeVars, freezeVars, toolVars>>

SeqMax(q) == CHOOSE m \in {q[i] : i \in 1..Len(q)} : \A i \in 1..Len(q) : q[i] <= m

\* Faulty variant: the threshold is taken from the first donated descriptor.
closefrom_first(child_fds) == IF child_fds # <<>> THEN Some(child_fds[1] + 1) ELSE None

\* The threshold _run_criu_restore passes with -C: one above the highest donated
\* descriptor, or no threshold when there is no donated descriptor.
closefrom_of(child_fds) == IF child_fds # <<>> THEN Some(SeqMax(child_fds) + 1) ELSE None

\* The outcomes of _run_criu_restore before the engine runs.
LaunchOutcomes == {"ok", "SudoCloseFromUnsupported", "LaunchFailed"}

\* _run_criu_restore up to subprocess.run: the capability check, the command, the launch.
RunCriuRestore(r) ==
    /\ pc[r] = "built"
    /\ MayRun(r)
    /\ \E outcome \in LaunchOutcomes :
        LET p == The(pipes[r])
        IN  IF outcome = "ok"
            THEN /\ engine' = [engine EXCEPT ![r] =
                        [state |-> "running", status |-> None, runs |-> @.runs + 1,
                         pass_fds |-> p.child_fds,
                         closefrom |-> closefrom_of(p.child_fds),
                         inherit_args |-> p.inherit_args]]
                 /\ pc' = [pc EXCEPT ![r] = "invoking"]
                 /\ UNCHANGED <<pipes, open, inheritable, owner, error, loop, alloc>>
            ELSE LET u == thaw_unwind(p, open)
                 IN  /\ pipes' = [pipes EXCEPT ![r] = Some(u.obj)]
                     /\ open' = u.open
                     /\ inheritable' = inheritable \cap u.open
                     /\ owner' = Owners(owner, u.open, r)
                     /\ error' = [error EXCEPT ![r] = UnwindError(Err(outcome, None), u)]
                     /\ pc' = [pc EXCEPT ![r] = "failed"]
                     /\ loop' = Release(r)
                     /\ alloc' = [alloc EXCEPT ![r] = LedgerOf(@, u)]
                     /\ UNCHANGED engine
    /\ UNCHANGED <<mode, ctx, streams, handle, pid, polls, files, clock, otherTask,
                   trace, closes, storeVars, freezeVars, toolVars>>

ExitStatuses == {0, 1}

\* subprocess.run returns: the rest of _run_criu_restore, and the handler of thaw
\* when it raised.
EngineExit(r) ==
    /\ pc[r] = "invoking"
    /\ MayRun(r)
    /\ \E status \in ExitStatuses, w \in EngineWrites(r) :
        LET res == restore_completed(The(pipes[r]), open, status)
            u   == thaw_unwind(res.obj, res.open)
        IN  /\ engine' = [engine EXCEPT ![r].state = "exited", ![r].status = Some(status)]
            /\ files' = IF w = None THEN files
                        ELSE [files EXCEPT ![The(ctx[r]).pidfile] = w]
            /\ IF res.raised
               THEN /\ pipes' = [pipes EXCEPT ![r] = Some(u.obj)]
                    /\ open' = u.open
                    /\ inheritable' = inheritable \cap u.open
                    /\ owner' = Owners(owner, u.open, r)
                    /\ error' = [error EXCEPT ![r] =
                                    IF res.oserror THEN Err("OSError", None)
                                    ELSE UnwindError(Err("EngineFailed", Some(status)), u)]
                    /\ pc' = [pc EXCEPT ![r] = "failed"]
                    /\ loop' = Release(r)
                    /\ alloc' = [alloc EXCEPT ![r] = LedgerOf(LedgerOf(@, res), u)]
               ELSE /\ pipes' = [pipes EXCEPT ![r] = Some(res.obj)]
                    /\ open' = res.open
                    /\ inheritable' = inheritable \cap res.open
                    /\ owner' = Owners(owner, res.open, r)
                    /\ pc' = [pc EXCEPT ![r] = "awaiting"]
                    /\ alloc' = [alloc EXCEPT ![r] = LedgerOf(@, res)]
                    /\ UNCHANGED <<error, loop>>
    /\ UNCHANGED <<mode, ctx, streams, handle, pid, polls, clock, otherTask,
                   trace, closes, storeVars, freezeVars, toolVars>>

\* One iteration of _wait_for_pidfile, or its timeout and the handler of thaw.
WaitForPidfile(r) ==
    /\ pc[r] = "awaiting"
    /\ MayRun(r)
    /\ LET got == read_pidfile(files[The(ctx[r]).pidfile])
           u   == thaw_unwind(The(pipes[r]), open)
       IN  IF ~deadline_passed(polls[r])
           THEN IF got # None
                THEN /\ pid' = [pid EXCEPT ![r] = got]
                     /\ pc' = [pc EXCEPT ![r] = "gotpid"]
                     /\ UNCHANGED <<polls, pipes, open, inheritable, owner, error, loop, alloc>>
                ELSE /\ polls' = [polls EXCEPT ![r] = @ + 1]
                     /\ UNCHANGED <<pid, pc, pipes, open, inheritable, owner, error, loop, alloc>>
           ELSE /\ pipes' = [pipes EXCEPT ![r] = Some(u.obj)]
                /\ open' = u.open
                /\ inheritable' = inheritable \cap u.open
                /\ owner' = Owners(owner, u.open, r)
                /\ error' = [error EXCEPT ![r] = UnwindError(Err("PidTimeout", None), u)]
                /\ pc' = [pc EXCEPT ![r] = "failed"]
                /\ loop' = Release(r)
                /\ alloc' = [alloc EXCEPT ![r] = LedgerOf(@, u)]
                /\ UNCHANGED <<pid, polls>>
    /\ UNCHANGED <<mode, ctx, streams, handle, engine, files, clock, otherTask,
                   trace, closes, storeVars, freezeVars, toolVars>>

\* GoblinProcess(...) / AsyncGoblinProcess(...)
MakeHandle(r, st) ==
    Some([pid |-> The(pid[r]), stdin |-> st.stdin, stdout |-> st.stdout, stderr |-> st.stderr,
          log_path |-> The(ctx[r]).log_path])

\* thaw after the try block: build_sync_streams and the GoblinProcess.
BuildSyncStreams(r) ==
    /\ pc[r] = "gotpid"
    /\ mode[r] = "sync"
    /\ LET b == build_sync_streams(The(pipes[r]))
       IN  IF b.raised
           THEN /\ error' = [error EXCEPT ![r] = Err("StdioPipesClosed", None)]
                /\ pc' = [pc EXCEPT ![r] = "failed"]
                /\ alloc' = [alloc EXCEPT ![r].refused = @ + 1]
                /\ UNCHANGED <<pipes, streams, handle>>
           ELSE /\ pipes' = [pipes EXCEPT ![r] = Some(b.obj)]
                /\ streams' = [streams EXCEPT ![r] = b.streams]
                /\ handle' = [handle EXCEPT ![r] = MakeHandle(r, b.streams)]
                /\ pc' = [pc EXCEPT ![r] = "done"]
                /\ alloc' = [alloc EXCEPT ![r].taken = @ + 1]
                /\ error' = error
    /\ UNCHANGED <<mode, ctx, engine, pid, polls, open, inheritable, owner, files, clock, loop,
                   otherTask, trace, closes, storeVars, freezeVars, toolVars>>

\* thaw_async after the try block, up to its first await: the task yields to the
\* loop inside connect_write_pipe.
AsyncConnectStdin(r) ==
    /\ pc[r] = "gotpid"
    /\ mode[r] = "async"
    /\ loop = Some(r)
    /\ pc' = [pc EXCEPT ![r] = "conn_stdin"]
    /\ loop' = None
    /\ UNCHANGED <<mode, ctx, pipes, streams, handle, error, engine, pid, polls, open,
                   inheritable, owner, alloc, files, clock, otherTask, trace, closes, storeVars, freezeVars, toolVars>>

\* The task resumes with a connected stream and goes on to the next await, or to
\* the AsyncGoblinProcess after the third.
AsyncStreamReady(r) ==
    /\ pc[r] \in {"conn_stdin", "conn_stdout", "conn_stderr"}
    /\ loop = None
    /\ LET p  == The(pipes[r])
           st == IF pc[r] = "conn_stdin"
                 THEN [streams[r] EXCEPT !.stdin = make_stream_from_fd(The(p.parent_stdin_fd), "wb")]
                 ELSE IF pc[r] = "conn_stdout"
                 THEN [streams[r] EXCEPT !.stdout = make_stream_from_fd(The(p.parent_stdout_fd), "rb")]
                 ELSE [streams[r] EXCEPT !.stderr = make_stream_from_fd(The(p.parent_stderr_fd), "rb")]
       IN  /\ streams' = [streams EXCEPT ![r] = st]
           /\ IF pc[r] = "conn_stderr"
              THEN /\ handle' = [handle EXCEPT ![r] = MakeHandle(r, st)]
                   /\ pc' = [pc EXCEPT ![r] = "done"]
              ELSE /\ pc' = [pc EXCEPT ![r] = IF pc[r] = "conn_stdin" THEN "conn_stdout" ELSE "conn_stderr"]
                   /\ handle' = handle
    /\ UNCHANGED <<mode, ctx, pipes, error, engine, pid, polls, open, inheritable, owner, alloc, files,
                   clock, loop, otherTask, trace, closes, storeVars, freezeVars, toolVars>>

\* Another task of the same event loop (one talking to an already resumed
\* process) takes a step: it runs only when no task occupies the loop.
OtherTaskStep ==
    /\ loop = None
    /\ otherTask' = IF otherTask = "writing" THEN "reading" ELSE "writing"
    /\ UNCHANGED <<pc, mode, ctx, pipes, streams, handle, error, engine, pid, polls, open,
                   inheritable, owner, alloc, files, clock, loop, trace, closes, storeVars, freezeVars, toolVars>>

\* A second of wall-clock time passes. The clock is tracked while a call that
\* will read it (in _build_thaw_context) is still to come.
Tick ==
    /\ clock < MaxClock
    /\ \E r \in Calls : pc[r] = "idle"
    /\ clock' = clock + 1
    /\ UNCHANGED <<pc, mode, ctx, pipes, streams, handle, error, engine, pid, polls, open,
                   inheritable, owner, alloc, files, loop, otherTask, trace, closes, storeVars, freezeVars, toolVars>>

Next ==
    \/ \E r \in Calls :
        \/ ThawBegin(r)
        \/ PrepareStdioPipes(r)
        \/ RunCriuRestore(r)
        \/ EngineExit(r)
        \/ WaitForPidfile(r)
        \/ BuildSyncStreams(r)
        \/ AsyncConnectStdin(r)
        \/ AsyncStreamReady(r)
    \/ OtherTaskStep
    \/ Tick

Spec == Init /\ [][Next]_vars

(* ------------------------------------------------------------------ *)
(* Properties of resume                                                *)
(* ------------------------------------------------------------------ *)

\* Call r has raised an error of this kind.
Failed(r, kind) == pc[r] = "failed" /\ error[r] # None /\ The(error[r]).kind = kind

\* The descriptors behind the caller's streams of call r.
StreamFds(r) == {The(streams[r][n]).fd : n \in {n \in DOMAIN streams[r] : streams[r][n] # None}}

\* The descriptor numbers call r holds: those its substrate records and those
\* behind its caller's streams.
Held(r) ==
    StreamFds(r) \cup (IF pipes[r] = None THEN {}
                       ELSE ParentFds(The(pipes[r])) \cup ChildFds(The(pipes[r])))

\* Call r is between the return of _build_thaw_context and its own return.
InFlight(r) == pc[r] \in {"ctx", "built", "invoking", "awaiting", "gotpid",
                          "conn_stdin", "conn_stdout", "conn_stderr"}

\* C1: when the restore engine exits non-zero, then once thaw / thaw_async has
\* raised, none of the six descriptors made for that resume is open in the
\* calling process (retained and donated ends are all closed).
C1_EngineFailureClosesAll ==
    \A r \in Calls : Failed(r, "EngineFailed") => OpenOf(r) = {}

\* C2: after a successful resume exactly three of its six descriptors are open,
\* each behind one stream of the caller (stdin writable, stdout and stderr
\* readable), and no donated descriptor is open in the calling process.
C2_SuccessOwnership ==
    \A r \in Calls : pc[r] = "done" =>
        /\ \A n \in DOMAIN streams[r] : streams[r][n] # None
        /\ The(streams[r].stdin).kind = "wb"
        /\ The(streams[r].stdout).kind = "rb"
        /\ The(streams[r].stderr).kind = "rb"
        /\ Cardinality(StreamFds(r)) = 3
        /\ StreamFds(r) = alloc[r].retained
        /\ OpenOf(r) = StreamFds(r)
        /\ alloc[r].donated \cap OpenOf(r) = {}

C2_Witness ==
    /\ pc[1] = "done" /\ mode[1] = "sync"
    /\ pc[2] = "done" /\ mode[2] = "async"

\* C3: when the resume fails after the substrate was built because the sudo
\* capability check raised or the launch of the restore engine raised, all six
\* descriptors of that resume are closed once the error has propagated.
C3_LaunchFailureClosesAll ==
    \A r \in Calls :
        (Failed(r, "SudoCloseFromUnsupported") \/ Failed(r, "LaunchFailed")) => OpenOf(r) = {}

\* C4: when the engine exited 0 and the pidfile never held an integer before the
\* timeout, the resume fails with the timeout error, all six descriptors are
\* closed and no handle exists.
C4_PidTimeoutUnwinds ==
    \A r \in Calls :
        Failed(r, "PidTimeout") =>
            /\ engine[r].status = Some(0)
            /\ pid[r] = None
            /\ OpenOf(r) = {}
            /\ ParentFds(The(pipes[r])) = {} /\ ChildFds(The(pipes[r])) = {}
            /\ handle[r] = None
            /\ streams[r] = NoStreams

C4_Witness ==
    \E r \in Calls : Failed(r, "PidTimeout") /\ alloc[r].retained # {} /\ files[The(ctx[r]).pidfile] = Some(<<"x">>)

\* C5: each retained descriptor has one owner at every moment: once the
\* caller's stream for it exists, the substrate no longer records it.
C5_SingleOwner ==
    \A r \in Calls : \A n \in DOMAIN streams[r] :
        (streams[r][n] # None /\ pipes[r] # None) =>
            The(streams[r][n]).fd \notin ParentFds(The(pipes[r]))

\* C6: a process handle exists only after the restore engine has exited with
\* status 0 and a process id has been read from the pidfile; the handle carries
\* that id.
C6_HandleOnlyAfterSuccess ==
    \A r \in Calls : handle[r] # None =>
        /\ engine[r].state = "exited"
        /\ engine[r].status = Some(0)
        /\ pid[r] # None
        /\ The(handle[r]).pid = The(pid[r])
        /\ pc[r] = "done"

C6_Witness ==
    \E r \in Calls : handle[r] # None /\ The(handle[r]).pid = 1 /\ engine[r].status = Some(0)

\* C7: while thaw_async waits for the restore engine or for the pidfile, another
\* task of the same event loop can take a step.
C7_OthersRunDuringWait ==
    \A r \in Calls :
        (mode[r] = "async" /\ pc[r] \in {"invoking", "awaiting"}) => ENABLED OtherTaskStep

\* C8: of two resumes of the same image directory that run concurrently, each
\* obtains the process id its own engine invocation wrote, the two ids differ,
\* and their descriptor sets are disjoint.
C8_ConcurrentResumes ==
    \A r, q \in Calls :
        (r # q /\ InFlight(r) /\ InFlight(q)) =>
            /\ pid[r] # None => The(pid[r]) = int_of(strip(EnginePidText(r)))
            /\ (pid[r] # None /\ pid[q] # None) => pid[r] # pid[q]
            /\ Held(r) \cap Held(q) = {}

\* C9: any two resume calls on the same image directory use different pidfile
\* paths and different log paths.
C9_UniquePaths ==
    \A r, q \in Calls :
        (r # q /\ ctx[r] # None /\ ctx[q] # None) =>
            /\ The(ctx[r]).pidfile # The(ctx[q]).pidfile
            /\ The(ctx[r]).log_path # The(ctx[q]).log_path

(* ------------------------------------------------------------------ *)
(* Checkpoint: freeze and freeze_async                                 *)
(* ------------------------------------------------------------------ *)

\* What /proc/<pid>/fd/<n> may link to (None: readlink raises OSError).
LinkTargets == {None, Some(PipeTarget("A")), Some(<<"/dev/pts/0">>), Some(<<"socket:[", "9", "]">>)}

\* The process ids freeze is called with.
FreezePids == {-1, 0, 1}

\* What the environment checks of _build_freeze_context find.
FreezeEnvs == {"ok", "NotLinux", "NoSudo", "NoCriu"}

\* os.readlink of /proc/<p>/fd/<n>: a process id that names no process has no
\* such link.
proc_fd_target(p, n) == IF p <= 0 THEN None ELSE target[n]

\* Faulty variant: every link target is accepted.
is_pipe_target_any(t) == TRUE

\* target.startswith("pipe:[")
is_pipe_target(t) == t # <<>> /\ Head(t) = "pipe:["

\* The descriptors of process p, among 0..2, that _collect_pipe_ids_from_proc rejects.
RejectedFds(p) ==
    {n \in 0..2 : proc_fd_target(p, n) = None \/ ~is_pipe_target(The(proc_fd_target(p, n)))}

\* _collect_pipe_ids_from_proc: descriptors 0, 1, 2 in order; the first whose link
\* cannot be read or is no pipe raises, naming it.
collect_pipe_ids_from_proc(p) ==
    IF RejectedFds(p) = {}
    THEN [raised |-> FALSE, error |-> None,
          pipe_ids |-> [stdin  |-> The(proc_fd_target(p, 0)),
                        stdout |-> The(proc_fd_target(p, 1)),
                        stderr |-> The(proc_fd_target(p, 2))]]
    ELSE LET fd == CHOOSE n \in RejectedFds(p) : \A m \in RejectedFds(p) : n <= m
         IN  [raised |-> TRUE,
              error |-> IF proc_fd_target(p, fd) = None
                        THEN Some([kind |-> "InspectFailed", returncode |-> None, fd |-> fd, name |-> None])
                        ELSE Some([kind |-> "NotAPipe", returncode |-> None, fd |-> fd,
                                   name |-> Some(StreamNames[fd + 1])]),
              pipe_ids |-> EmptyDict]

\* The check of freeze on its pid; freeze_async has none.
pid_rejected(m, p) == m = "sync" /\ p <= 0

\* Faulty variant: the exit status of the checkpoint engine is ignored.
freeze_failed_never(returncode) == FALSE

\* _handle_freeze_result
freeze_failed(returncode) == returncode # 0

\* Faulty variant: a failed dump is started over.
after_dump_retry(returncode) == IF freeze_failed(returncode) THEN "ctx" ELSE "writing"

\* Where freeze and freeze_async go once the engine has exited: a non-zero
\* status raises out of the call, status 0 goes on to the metadata.
after_dump(returncode) == IF freeze_failed(returncode) THEN "failed" ELSE "writing"

\* _handle_freeze_result on a non-zero status: the tail of the log goes to
\* logger.error, the RuntimeError raised has the exit status in its message.
handle_freeze_result(returncode, read) ==
    [logged |-> Some(log_tail_of(read)),
     error  |-> Some([kind |-> "EngineFailed", returncode |-> Some(returncode),
                      fd |-> None, name |-> None, log_tail |-> None])]

InitFreeze ==
    /\ pc = [r \in Calls |-> "idle"]
    /\ mode = [r \in Calls |-> "sync"]
    /\ ctx = [r \in Calls |-> None]
    /\ pipes = [r \in Calls |-> None]
    /\ streams = [r \in Calls |-> NoStreams]
    /\ handle = [r \in Calls |-> None]
    /\ error = [r \in Calls |-> None]
    /\ engine = [r \in Calls |-> NoEngine]
    /\ pid = [r \in Calls |-> None]
    /\ polls = [r \in Calls |-> 0]
    /\ trace = [r \in Calls |-> NoTrace]
    /\ closes = [r \in Calls |-> NoCloses]
    /\ open = StdFds
    /\ inheritable = {}
    /\ owner = [fd \in StdFds |-> 0]
    /\ alloc = [r \in Calls |-> NoAlloc]
    /\ files = [t \in 0..MaxClock |-> None]
    /\ clock = 0
    /\ loop = None
    /\ otherTask = "writing"
    /\ dirExists \in BOOLEAN
    /\ metaFile = None
    /\ images = ImgABC
    /\ fz = NoFreeze
    /\ target \in [0..2 -> LinkTargets]
    /\ rcmd = NoResolve
    /\ drun = NoDoctor
    /\ cshow = NoCrit
    /\ beam = NoBeam

\* freeze / freeze_async up to the return of _build_freeze_context.
FreezeBegin ==
    /\ fz.pc = "idle"
    /\ \E m \in Modes, p \in FreezePids, env \in FreezeEnvs :
        LET got == collect_pipe_ids_from_proc(p)
            call == [fz EXCEPT !.mode = m, !.pid = p, !.env = env]
        IN  IF pid_rejected(m, p)
            THEN /\ fz' = [call EXCEPT !.pc = "failed",
                                       !.error = Some([kind |-> "ValueError", returncode |-> None,
                                                       fd |-> None, name |-> None])]
                 /\ UNCHANGED dirExists
            ELSE IF env # "ok"
            THEN /\ fz' = [call EXCEPT !.pc = "failed",
                                       !.error = Some([kind |-> env, returncode |-> None,
                                                       fd |-> None, name |-> None])]
                 /\ UNCHANGED dirExists
            ELSE IF got.raised
            THEN /\ fz' = [call EXCEPT !.pc = "failed", !.error = got.error]
                 /\ UNCHANGED dirExists
            ELSE /\ fz' = [call EXCEPT !.pc = "ctx", !.pipe_ids = got.pipe_ids]
                 /\ dirExists' = TRUE
    /\ UNCHANGED <<resumeVars, metaFile, images, target, toolVars>>

\* subprocess.run(context.command) / asyncio.create_subprocess_exec: the
\* checkpoint engine starts.
FreezeRun ==
    /\ fz.pc = "ctx"
    /\ fz' = [fz EXCEPT !.pc = "dumping", !.runs = @ + 1]
    /\ UNCHANGED <<resumeVars, storeVars, target, toolVars>>

\* The engine exits: _handle_freeze_result, then _record_freeze_metadata up to
\* the open() of Path.write_text, which creates the file or truncates it.
FreezeExit ==
    /\ fz.pc = "dumping"
    /\ \E status \in ExitStatuses, read \in LogReads :
        IF freeze_failed(status)
        THEN /\ fz' = [fz EXCEPT !.pc = after_dump(status), !.status = Some(status),
                                 !.logged = handle_freeze_result(status, read).logged,
                                 !.error = handle_freeze_result(status, read).error]
             /\ UNCHANGED metaFile
        ELSE /\ fz' = [fz EXCEPT !.pc = after_dump(status), !.status = Some(status)]
             /\ metaFile' = Some(<<>>)
    /\ UNCHANGED <<resumeVars, dirExists, images, target, toolVars>>

\* The write() and close() of Path.write_text; freeze returns.
FreezeWrite ==
    /\ fz.pc = "writing"
    /\ fz' = [fz EXCEPT !.pc = "done", !.wrote = TRUE]
    /\ metaFile' = Some(json_dumps(record_freeze_metadata(fz.pid, fz.pipe_ids, clock)))
    /\ UNCHANGED <<resumeVars, dirExists, images, target, toolVars>>

NextFreeze == FreezeBegin \/ FreezeRun \/ FreezeExit \/ FreezeWrite

SpecFreeze == InitFreeze /\ [][NextFreeze]_vars

\* C10: if any of descriptors 0, 1, 2 of the target process is not backed by an
\* anonymous pipe at checkpoint time, the checkpoint fails, the error of the
\* resolver names the first such stream, the checkpoint engine is never invoked
\* and no metadata file is written.
C10_NonPipeStdioRejected ==
    (fz.pc # "idle" /\ \E n \in 0..2 : target[n] = None \/ Head(The(target[n])) # "pipe:[") =>
        /\ fz.pc = "failed"
        /\ fz.runs = 0
        /\ ~fz.wrote
        /\ metaFile = None
        /\ (fz.env = "ok" /\ fz.pid > 0) =>
              /\ The(fz.error).kind \in {"NotAPipe", "InspectFailed"}
              /\ LET fd == The(fz.error).fd
                 IN  /\ target[fd] = None \/ Head(The(target[fd])) # "pipe:["
                     /\ \A m \in 0..(fd - 1) : target[m] # None /\ Head(The(target[m])) = "pipe:["
                     /\ The(fz.error).kind = "NotAPipe" => The(fz.error).name = Some(StreamNames[fd + 1])

C10_Witness ==
    /\ fz.pc = "failed"
    /\ fz.error # None
    /\ The(fz.error).kind = "NotAPipe"
    /\ The(fz.error).name = Some("stderr")
    /\ target[2] = Some(<<"/dev/pts/0">>)

\* C11: the checkpoint record is written only after the checkpoint engine has
\* reported success. A call whose engine exits non-zero raises and writes no
\* metadata file; a call whose engine exits 0 has written the file, holding a
\* parseable record, when it returns; and no file exists unless the engine of
\* the call has exited 0.
C11_RecordOnlyAfterSuccess ==
    /\ (fz.status # None /\ The(fz.status) # 0) =>
          /\ fz.pc = "failed"
          /\ The(fz.error).kind = "EngineFailed"
          /\ ~fz.wrote
          /\ metaFile = None
    /\ fz.pc = "done" =>
          /\ fz.status = Some(0)
          /\ metaFile # None
          /\ ~load_metadata(metaFile).raised
          /\ "pipe_ids" \in DOMAIN load_metadata(metaFile).val
    /\ metaFile # None => fz.status = Some(0)

C11_Witness ==
    /\ fz.pc = "done"
    /\ fz.mode = "async"
    /\ fz.runs = 1
    /\ metaFile # None

(* ------------------------------------------------------------------ *)
(* One image directory: a checkpoint into it and a resume from it      *)
(* ------------------------------------------------------------------ *)

\* Descriptor tables crit may show for fdinfo-*.img.
FdTables ==
    { FdTable123,
      <<>>,
      <<FdEntry(0, "id", 1), FdEntry(1, "id", 2)>>,
      <<FdEntry(0, "id", 0), FdEntry(1, "id", 2), FdEntry(2, "id", 3)>>,
      <<FdEntry(0, "file_id", 1), FdEntry(1, "id_id", 2), FdEntry(2, "id", 3)>>,
      <<FdEntry(0, "id", 1), FdEntry(1, "id", 2), FdEntry(2, "id", 3), FdEntry(2, "id", 9)>>,
      <<FdEntry(0, "id", 1), FdEntry(1, "id", 1), FdEntry(2, "id", 1)>> }

\* File objects crit may show for files.img.
FileTables ==
    { The(ImgABC.files),
      The(ImgNoPipes.files),
      <<>>,
      <<FileEntry("id", 1, PipeBody("A")), FileEntry("id", 2, PipeBody("B"))>>,
      <<FileEntry("ino_id", 1, JList(<<JNum(0), PipeBody("A")>>)), FileEntry("file_id", 2, PipeBody("B")),
        FileEntry("id", 3, PipeBody("C")), FileEntry("id", 3, PlainBody)>>,
      <<FileEntry("id", 0, PipeBody("A")), FileEntry("id", 2, PipeBody("B")),
        FileEntry("id", 3, PipeBody("C"))>> }

\* The image sets a directory may hold.
ImageSets ==
    [crit : {"ok"}, fdinfo : {None} \cup {Some(t) : t \in FdTables},
     files : {None} \cup {Some(t) : t \in FileTables}]
        \cup {[ImgABC EXCEPT !.crit = c] : c \in {"missing", "broken"}}

\* A record without identity data.
BareText == <<JOpen, JKey("pid"), JInt(1), JClose>>

\* What the directory holds before the calls: no record and any image set, or a
\* record left by an earlier checkpoint, whole or damaged.
StoreInits ==
    {<<None, img>> : img \in ImageSets}
        \cup ({Some(json_dumps(MetaOf(TripleABC))), Some(BareText), Some(CorruptText)}
                \X {ImgABC, ImgNoPipes})

\* The pipes behind descriptors 0, 1, 2 of the process being checkpointed:
\* three pipes, or one pipe shared by stdout and stderr.
StoreTargets == {<<"D", "E", "F">>, <<"D", "E", "E">>}

\* The call that resumes from the directory.
StoreCalls == {r \in Calls : r <= 1}

InitStore ==
    /\ pc = [r \in Calls |-> "idle"]
    /\ mode = [r \in Calls |-> "sync"]
    /\ ctx = [r \in Calls |-> None]
    /\ pipes = [r \in Calls |-> None]
    /\ streams = [r \in Calls |-> NoStreams]
    /\ handle = [r \in Calls |-> None]
    /\ error = [r \in Calls |-> None]
    /\ engine = [r \in Calls |-> NoEngine]
    /\ pid = [r \in Calls |-> None]
    /\ polls = [r \in Calls |-> 0]
    /\ trace = [r \in Calls |-> NoTrace]
    /\ closes = [r \in Calls |-> NoCloses]
    /\ open = StdFds
    /\ inheritable = {}
    /\ owner = [fd \in StdFds |-> 0]
    /\ alloc = [r \in Calls |-> NoAlloc]
    /\ files = [t \in 0..MaxClock |-> None]
    /\ clock = 0
    /\ loop = None
    /\ otherTask = "writing"
    /\ dirExists = TRUE
    /\ \E st \in StoreInits : metaFile = st[1] /\ images = st[2]
    /\ fz = NoFreeze
    /\ \E inos \in StoreTargets : target = [n \in 0..2 |-> Some(PipeTarget(inos[n + 1]))]
    /\ rcmd = NoResolve
    /\ drun = NoDoctor
    /\ cshow = NoCrit
    /\ beam = NoBeam

NextStore ==
    \/ FreezeBegin
    \/ FreezeRun
    \/ FreezeExit
    \/ FreezeWrite
    \/ \E r \in StoreCalls : ThawBegin(r)

SpecStore == InitStore /\ [][NextStore]_vars

\* Call r reads the directory in this step: _build_thaw_context runs.
Reads(r) == pc[r] = "idle" /\ pc'[r] # "idle"

\* The metadata file holds a JSON document; it holds one with identity data.
Parses(mf) == mf # None /\ ~json_loads(The(mf)).raised

HasIdentity(mf) == Parses(mf) /\ "pipe_ids" \in DOMAIN json_loads(The(mf)).val

\* C12: round trip. A resume that reads the metadata file after a checkpoint
\* into the same directory has returned takes from it, stream by stream, the
\* triple that checkpoint resolved, without consulting the images.
C12_RoundTrip ==
    [][\A r \in StoreCalls :
          (fz.pc = "done" /\ Reads(r)) =>
              /\ trace'[r].resolved = Some(fz.pipe_ids)
              /\ \A n \in DOMAIN StreamNames :
                    The(trace'[r].resolved)[StreamNames[n]] = The(target[n - 1])
              /\ ~trace'[r].recovered]_vars

C12_Witness ==
    /\ fz.pc = "done"
    /\ pc[1] = "ctx"
    /\ ~trace[1].recovered
    /\ The(ctx[1]).pipe_ids = fz.pipe_ids
    /\ fz.pipe_ids.stdout # fz.pipe_ids.stderr
    /\ images = ImgNoPipes

\* C13: once a checkpoint record exists in an image directory, no later
\* operation on that directory changes its content.
C13_RecordNeverChanged ==
    [][Parses(metaFile) => metaFile' = metaFile]_vars

\* C14: a resume that reads the directory while a checkpoint is writing the
\* record finds no record or the complete record, never an empty or partial
\* one: it does not fail on parsing it.
C14_AtomicRecord ==
    [][\A r \in StoreCalls :
          (fz.pc = "writing" /\ Reads(r)) =>
              /\ metaFile = None \/ Parses(metaFile)
              /\ ~(pc'[r] = "failed" /\ The(error'[r]).kind = "JSONDecodeError")]_vars

C16_UnusableMetadataFailsEarly ==
    \A r \in Calls :
        (pc[r] # "idle" /\ dirExists /\ ~Parses(metaFile) /\ images = ImgNoPipes) =>
            /\ Failed(r, "IdentityRecoveryFailed")
            /\ alloc[r] = NoAlloc
            /\ OpenOf(r) = {}
            /\ engine[r].runs = 0

\* The identifiers the descriptor table gives for descriptor k, and the pipe
\* identity strings held by the file objects with identifier x.
RECURSIVE StringsIn(_)
StringsIn(obj) ==
    IF obj.t = "str" THEN {obj.v}
    ELSE IF obj.t = "dict" THEN UNION {StringsIn(obj.v[i][2]) : i \in DOMAIN obj.v}
    ELSE IF obj.t = "list" THEN UNION {StringsIn(obj.v[i]) : i \in DOMAIN obj.v}
    ELSE {}

IdsOfFd(img, k) ==
    IF img.fdinfo = None THEN {}
    ELSE LET tbl == The(img.fdinfo)
         IN  {dict_get(tbl[i], key) : i \in {j \in DOMAIN tbl : dict_get(tbl[j], "fd") = JNum(k)},
                                      key \in {"id", "file_id", "id_id"}} \ {JNull}

PipeStringsOf(img, x) ==
    IF img.files = None THEN {}
    ELSE LET tbl == The(img.files)
         IN  UNION {{str \in StringsIn(JDict(tbl[i])) : str # <<>> /\ Head(str) = "pipe:["} :
                      i \in {j \in DOMAIN tbl : \E key \in {"id", "file_id", "ino_id"} :
                                                    dict_get(tbl[j], key) = x}}

\* C18: the recoverer returns a triple only when, for each of descriptors 0, 1
\* and 2, the descriptor table yields a file identifier and the file objects
\* have an entry with that identifier holding a pipe identity string; it raises
\* when crit is unavailable, when there is no descriptor table, or when one of
\* the three joins is empty; a triple it returns has all three streams.
C18_RecovererSound ==
    \A r \in StoreCalls :
        trace[r].recovered =>
            /\ trace[r].resolved # None =>
                  LET triple == The(trace[r].resolved)
                  IN  /\ DOMAIN triple = {"stdin", "stdout", "stderr"}
                      /\ images.crit # "missing"
                      /\ images.fdinfo # None
                      /\ \A k \in StdFds :
                            \E x \in IdsOfFd(images, k) :
                                triple[StreamNames[k + 1]] \in PipeStringsOf(images, x)
            /\ (\/ images.crit = "missing"
                \/ images.fdinfo = None
                \/ \E k \in StdFds : \A x \in IdsOfFd(images, k) : PipeStringsOf(images, x) = {}) =>
                  /\ trace[r].resolved = None
                  /\ Failed(r, "IdentityRecoveryFailed")

C18_Witness ==
    /\ trace[1].recovered
    /\ trace[1].crit_calls = 2
    /\ trace[1].resolved = Some(TripleABC)
    /\ images.fdinfo # Some(FdTable123)
    /\ images.files # ImgABC.files

\* C17: a resume whose checkpoint record holds a triple that lacks one of the
\* three streams fails as a whole: the restore engine is never invoked, no
\* handle is returned, and no descriptor allocated for the resume stays open.
C17_PartialTripleFailsClean ==
    \A r \in Calls :
        (/\ pc[r] \notin {"idle", "ctx"}
         /\ trace[r].resolved # None
         /\ ~HasAllStreams(The(trace[r].resolved))) =>
            /\ pc[r] = "failed"
            /\ engine[r].runs = 0
            /\ handle[r] = None
            /\ OpenOf(r) = {}

\* C19: when the checkpoint engine exits with a non-zero status s, the error
\* raised to the caller carries s and the tail of the engine's log, or the
\* placeholder text when the log cannot be read.
C19_EngineErrorCarriesStatusAndTail ==
    (fz.pc = "failed" /\ fz.status # None) =>
        /\ The(fz.error).kind = "EngineFailed"
        /\ The(fz.error).returncode = fz.status
        /\ The(fz.error).log_tail # None
        /\ The(fz.error).log_tail = fz.logged

(* ------------------------------------------------------------------ *)
(* The caller closes the streams of a resumed process                  *)
(* ------------------------------------------------------------------ *)

\* Faulty variant: closing a closed stream raises.
stream_close_strict(st, isClosed, o) ==
    [raised |-> isClosed, open |-> IF st.closefd THEN o \ {st.fd} ELSE o]

\* close() of one stream of the handle with open set o. A file object of
\* build_sync_streams owns its descriptor and closes it with itself; the object
\* under an asyncio stream was opened with closefd=False. close() of a closed
\* object returns at once.
stream_close(st, isClosed, o) ==
    [raised |-> FALSE, open |-> IF ~isClosed /\ st.closefd THEN o \ {st.fd} ELSE o]

\* The streams of the handle that have a close(): all three file objects of a
\* GoblinProcess, the StreamWriter of an AsyncGoblinProcess.
Closable(m) == IF m = "sync" THEN {"stdin", "stdout", "stderr"} ELSE {"stdin"}

\* The streams GoblinProcess.close and AsyncGoblinProcess.close close, in order.
CloseOrder(m) == IF m = "sync" THEN StreamNames ELSE <<"stdin">>

\* The calls whose handle the caller closes.
CloseCalls == {r \in Calls : r <= 1}

\* handle.<name>.close()
StreamClose(r, name) ==
    /\ pc[r] = "done"
    /\ name \in Closable(mode[r])
    /\ LET c == stream_close(The(streams[r][name]), name \in closes[r].closed, open)
       IN  /\ open' = c.open
           /\ owner' = [fd \in c.open |-> owner[fd]]
           /\ inheritable' = inheritable \cap c.open
           /\ closes' = [closes EXCEPT ![r] =
                            [closed |-> @.closed \cup {name},
                             again  |-> IF name \in @.closed THEN @.again \cup {name} ELSE @.again,
                             raised |-> @.raised \/ c.raised]]
    /\ UNCHANGED <<pc, mode, ctx, pipes, streams, handle, error, engine, pid, polls, trace, alloc,
                   files, clock, loop, otherTask, storeVars, freezeVars, toolVars>>

\* The open set after close() of the streams names[i..], each error swallowed.
RECURSIVE close_all(_, _, _, _, _)
close_all(names, i, st, done, o) ==
    IF i > Len(names) THEN o
    ELSE close_all(names, i + 1, st, done,
                   stream_close(The(st[names[i]]), names[i] \in done, o).open)

\* GoblinProcess.close / AsyncGoblinProcess.close
HandleClose(r) ==
    /\ pc[r] = "done"
    /\ LET names == CloseOrder(mode[r])
           o2    == close_all(names, 1, streams[r], closes[r].closed, open)
           all   == {names[i] : i \in DOMAIN names}
       IN  /\ open' = o2
           /\ owner' = [fd \in o2 |-> owner[fd]]
           /\ inheritable' = inheritable \cap o2
           /\ closes' = [closes EXCEPT ![r] =
                            [closed |-> @.closed \cup all,
                             again  |-> @.again \cup (@.closed \cap all),
                             raised |-> @.raised]]
    /\ UNCHANGED <<pc, mode, ctx, pipes, streams, handle, error, engine, pid, polls, trace, alloc,
                   files, clock, loop, otherTask, storeVars, freezeVars, toolVars>>

NextClose ==
    \/ \E r \in CloseCalls :
        \/ ThawBegin(r)
        \/ PrepareStdioPipes(r)
        \/ RunCriuRestore(r)
        \/ EngineExit(r)
        \/ WaitForPidfile(r)
        \/ BuildSyncStreams(r)
        \/ AsyncConnectStdin(r)
        \/ AsyncStreamReady(r)
        \/ HandleClose(r)
        \/ \E name \in DOMAIN NoStreams : StreamClose(r, name)
    \/ OtherTaskStep

SpecClose == Init /\ [][NextClose]_vars

PipesCalls == {r \in Calls : r <= 1}

\* pipes.build_sync_streams()
ApiTake(r) ==
    /\ pc[r] = "built"
    /\ alloc[r].taken + alloc[r].refused < MaxTakes
    /\ LET b == build_sync_streams(The(pipes[r]))
       IN  IF b.raised
           THEN /\ alloc' = [alloc EXCEPT ![r].refused = @ + 1]
                /\ UNCHANGED <<pipes, streams>>
           ELSE /\ pipes' = [pipes EXCEPT ![r] = Some(b.obj)]
                /\ streams' = [streams EXCEPT ![r] = b.streams]
                /\ alloc' = [alloc EXCEPT ![r].taken = @ + 1]
    /\ UNCHANGED <<pc, mode, ctx, handle, error, engine, pid, polls, trace, closes, open, inheritable,
                   owner, files, clock, loop, otherTask, storeVars, freezeVars, toolVars>>

\* pipes.close_parent_ends()
ApiCloseParentEnds(r) ==
    /\ pc[r] = "built"
    /\ LET c == close_parent_ends(The(pipes[r]), open)
       IN  /\ pipes' = [pipes EXCEPT ![r] = Some(c.obj)]
           /\ open' = c.open
           /\ inheritable' = inheritable \cap c.open
           /\ owner' = [fd \in c.open |-> owner[fd]]
           /\ alloc' = [alloc EXCEPT ![r] = Ledger(@, c.closed)]
    /\ UNCHANGED <<pc, mode, ctx, streams, handle, error, engine, pid, polls, trace, closes,
                   files, clock, loop, otherTask, storeVars, freezeVars, toolVars>>

\* pipes.close_child_fds()
ApiCloseChildFds(r) ==
    /\ pc[r] = "built"
    /\ LET c == close_child_fds(The(pipes[r]), open)
       IN  /\ pipes' = [pipes EXCEPT ![r] = Some(c.obj)]
           /\ open' = c.open
           /\ inheritable' = inheritable \cap c.open
           /\ owner' = [fd \in c.open |-> owner[fd]]
           /\ alloc' = [alloc EXCEPT ![r] = Ledger(@, c.closed)]
    /\ UNCHANGED <<pc, mode, ctx, streams, handle, error, engine, pid, polls, trace, closes,
                   files, clock, loop, otherTask, storeVars, freezeVars, toolVars>>

NextPipes ==
    \E r \in PipesCalls :
        \/ ThawBegin(r)
        \/ PrepareStdioPipes(r)
        \/ ApiTake(r)
        \/ ApiCloseParentEnds(r)
        \/ ApiCloseChildFds(r)

SpecPipes == Init /\ [][NextPipes]_vars

\* C21: taking the retained ends is one-shot. A take on a substrate whose
\* retained ends were neither taken nor closed succeeds and hands out the three
\* retained descriptors; every other take raises, hands out nothing and leaves
\* the substrate as it was.
C21_TakeOneShot ==
    [][\A r \in PipesCalls :
          (alloc'[r].taken + alloc'[r].refused = alloc[r].taken + alloc[r].refused + 1) =>
              IF alloc[r].taken = 0 /\ alloc[r].retained \cap alloc[r].closed = {}
              THEN /\ alloc'[r].taken = 1
                   /\ \A n \in DOMAIN streams'[r] : streams'[r][n] # None
                   /\ {The(streams'[r][n]).fd : n \in DOMAIN streams'[r]} = alloc[r].retained
              ELSE /\ alloc'[r].refused = alloc[r].refused + 1
                   /\ streams'[r] = streams[r]
                   /\ pipes'[r] = pipes[r]]_vars

C21_Witness ==
    /\ pc[1] = "built"
    /\ alloc[1].taken = 1
    /\ alloc[1].refused = 1
    /\ alloc[1].retained \cap alloc[1].closed = {}
    /\ streams[1].stdin # None

\* C22: no descriptor lifecycle violation in any execution of thaw or
\* thaw_async: the substrate calls os.close at most once on each descriptor it
\* allocated and only on those, and the retained ends are taken at most once.
C22_NoLifecycleViolation ==
    \A r \in Calls :
        /\ alloc[r].reclosed = {}
        /\ alloc[r].closed \subseteq alloc[r].donated \cup alloc[r].retained
        /\ alloc[r].taken <= 1
        /\ alloc[r].refused = 0

C22_Witness ==
    /\ Failed(1, "EngineFailed")
    /\ alloc[1].closed = alloc[1].retained
    /\ alloc[1].retained # {}
    /\ pc[2] = "done"
    /\ mode[2] = "sync"
    /\ alloc[2].taken = 1
    /\ alloc[2].closed = alloc[2].donated

\* C23: for every process id less than or equal to zero, freeze and
\* freeze_async raise ValueError, before pipe identities are resolved, the
\* image directory is created, the checkpoint engine is invoked or metadata is
\* written.
C23_NonPositivePidRejected ==
    (fz.pc # "idle" /\ fz.pid <= 0) =>
        /\ fz.pc = "failed"
        /\ The(fz.error).kind = "ValueError"
        /\ fz.runs = 0
        /\ ~fz.wrote
        /\ metaFile = None

(* ------------------------------------------------------------------ *)
(* One process that checkpoints and resumes                            *)
(* ------------------------------------------------------------------ *)

\* The resume call of the session.
SessionCalls == {r \in Calls : r <= 1}

NextSession ==
    \/ FreezeBegin
    \/ FreezeRun
    \/ FreezeExit
    \/ FreezeWrite
    \/ \E r \in SessionCalls :
        \/ ThawBegin(r)
        \/ PrepareStdioPipes(r)
        \/ RunCriuRestore(r)
        \/ EngineExit(r)
        \/ WaitForPidfile(r)
        \/ BuildSyncStreams(r)
        \/ AsyncConnectStdin(r)
        \/ AsyncStreamReady(r)

SpecSession == Init /\ [][NextSession]_vars

\* C24: no automatic retry. Within one freeze or freeze_async call the
\* checkpoint engine is invoked at most once and within one thaw or thaw_async
\* call the restore engine is invoked at most once, whatever the exit status
\* and whatever fails afterwards; a call that has ended leaves no engine running.
C24_NoRetry ==
    /\ fz.runs <= 1
    /\ fz.pc \in {"failed", "done"} /\ fz.status # None => fz.runs = 1
    /\ \A r \in Calls :
          /\ engine[r].runs <= 1
          /\ pc[r] \in {"failed", "done"} => engine[r].state # "running"
          /\ engine[r].status # None => engine[r].runs = 1

C24_Witness ==
    /\ fz.pc = "failed"
    /\ fz.status = Some(1)
    /\ fz.runs = 1
    /\ Failed(1, "PidTimeout")
    /\ engine[1].runs = 1
    /\ engine[1].status = Some(0)

(* ------------------------------------------------------------------ *)
(* Locating executables (utils.py)                                     *)
(* ------------------------------------------------------------------ *)

\* No checkpoint and no resume in progress: the state the command-line
\* helpers run in.
Quiet ==
    /\ pc = [r \in Calls |-> "idle"]
    /\ mode = [r \in Calls |-> "sync"]
    /\ ctx = [r \in Calls |-> None]
    /\ pipes = [r \in Calls |-> None]
    /\ streams = [r \in Calls |-> NoStreams]
    /\ handle = [r \in Calls |-> None]
    /\ error = [r \in Calls |-> None]
    /\ engine = [r \in Calls |-> NoEngine]
    /\ pid = [r \in Calls |-> None]
    /\ polls = [r \in Calls |-> 0]
    /\ trace = [r \in Calls |-> NoTrace]
    /\ closes = [r \in Calls |-> NoCloses]
    /\ open = StdFds
    /\ inheritable = {}
    /\ owner = [fd \in StdFds |-> 0]
    /\ alloc = [r \in Calls |-> NoAlloc]
    /\ files = [t \in 0..MaxClock |-> None]
    /\ clock = 0
    /\ loop = None
    /\ otherTask = "writing"
    /\ dirExists = FALSE
    /\ metaFile = None
    /\ images = ImgABC
    /\ fz = NoFreeze
    /\ target = [n \in 0..2 |-> Some(TripleABC[StreamNames[n + 1]])]

\* str.upper() on the letters executable names are spelled with.
UpperOf == [c |-> "C", n |-> "N", t |-> "T", a |-> "A", o |-> "O", b |-> "B"]

str_upper(t) == [i \in 1..Len(t) |-> IF t[i] \in DOMAIN UpperOf THEN UpperOf[t[i]] ELSE t[i]]

\* The characters the class [A-Z0-9] matches.
AZ09 == {"A", "B", "C", "N", "O", "T"} \cup Digits

RECURSIVE skip_run(_)
skip_run(t) == IF t # <<>> /\ Head(t) \notin AZ09 THEN skip_run(Tail(t)) ELSE t

\* re.sub(r"[^A-Z0-9]+", "_", t): every maximal run of other characters
\* becomes one underscore.
RECURSIVE re_sub(_)
re_sub(t) ==
    IF t = <<>> THEN <<>>
    ELSE IF Head(t) \in AZ09 THEN <<Head(t)>> \o re_sub(Tail(t))
    ELSE <<"_">> \o re_sub(skip_run(Tail(t)))

\* Faulty variant: every other character becomes an underscore of its own.
env_var_name_each(executable) ==
    <<"PDUM_CRIU_">> \o [i \in 1..Len(executable) |->
                            IF str_upper(executable)[i] \in AZ09 THEN str_upper(executable)[i]
                            ELSE "_"]

\* _env_var_name
env_var_name(executable) == <<"PDUM_CRIU_">> \o re_sub(str_upper(executable))

\* os.environ.get(key, default)
environ_get(environ, key, default) == IF key \in DOMAIN environ THEN environ[key] ELSE default

\* The one directory on PATH, with the separator os.path.join adds.
PathDir == <<"/", "b", "/">>

\* shutil.which(cmd): a command with a directory part is checked as it is, a
\* bare command is looked up in the directories of PATH.
which(installed, cmd) ==
    IF cmd = <<>> THEN None
    ELSE IF \E i \in 1..Len(cmd) : cmd[i] = "/"
    THEN (IF cmd \in installed THEN Some(cmd) ELSE None)
    ELSE IF PathDir \o cmd \in installed THEN Some(PathDir \o cmd) ELSE None

\* resolve_command
resolve_command(environ, installed, executable) ==
    IF executable = <<>> \/ strip(executable) = <<>>
    THEN [raised |-> Some("ValueError"), value |-> None]
    ELSE LET default_executable == strip(executable)
             env_var == env_var_name(default_executable)
             override == strip(environ_get(environ, env_var, <<>>))
             candidate == IF override # <<>> THEN override ELSE default_executable
             resolved == which(installed, candidate)
         IN  IF resolved # None
             THEN [raised |-> None, value |-> resolved]
             ELSE [raised |-> Some("FileNotFoundError"), value |-> None]

\* The names resolve_command is called with.
ExecutableNames ==
    { <<>>, <<" ">>, <<"t">>, <<" ", "t", " ">>, <<"c", "-", "n">>, <<"c", "-", ".", "n">> }

\* Environment variables that may be set, and the values they may hold.
EnvNames ==
    { <<"PDUM_CRIU_", "T">>, <<"PDUM_CRIU_", "C", "_", "N">>, <<"PDUM_CRIU_", "C", "_", "_", "N">> }

EnvValues == { <<" ">>, <<"/", "o">>, <<"a", " ">> }

Environs == UNION { [V -> EnvValues] : V \in SUBSET EnvNames }

\* Executable files that may exist.
InstallPaths ==
    { PathDir \o <<"t">>, PathDir \o <<"a">>, PathDir \o <<"c", "-", "n">>, <<"/", "o">> }

InitResolve ==
    /\ Quiet
    /\ \E e \in ExecutableNames, env \in Environs, inst \in SUBSET InstallPaths :
          rcmd = [NoResolve EXCEPT !.pc = "called", !.executable = e, !.environ = env,
                                   !.installed = inst]
    /\ drun = NoDoctor
    /\ cshow = NoCrit
    /\ beam = NoBeam

\* One call of resolve_command.
ResolveCommand ==
    /\ rcmd.pc = "called"
    /\ rcmd' = [rcmd EXCEPT !.pc = "returned",
                            !.raised = resolve_command(rcmd.environ, rcmd.installed,
                                                       rcmd.executable).raised,
                            !.value = resolve_command(rcmd.environ, rcmd.installed,
                                                      rcmd.executable).value]
    /\ UNCHANGED <<resumeVars, storeVars, freezeVars, drun, cshow, beam>>

SpecResolve == InitResolve /\ [][ResolveCommand]_vars

\* C25: resolve_command resolves the name held by the PDUM_CRIU_<NAME>
\* variable (the name upper-cased, every run of non-alphanumerics one
\* underscore) whenever that variable holds a non-blank value, and the default
\* name otherwise; an empty or blank name raises ValueError, and a candidate
\* that cannot be located raises FileNotFoundError even when the default name
\* could have been located.
C25_ResolveCommand ==
    rcmd.pc = "returned" =>
        LET name == strip(rcmd.executable)
            var == CASE name = <<"t">> -> <<"PDUM_CRIU_", "T">>
                     [] name \in {<<"c", "-", "n">>, <<"c", "-", ".", "n">>}
                           -> <<"PDUM_CRIU_", "C", "_", "N">>
                     [] OTHER -> <<>>
            isSet == var \in DOMAIN rcmd.environ /\ strip(rcmd.environ[var]) # <<>>
            chosen == IF isSet THEN strip(rcmd.environ[var]) ELSE name
            path == IF "/" \in {chosen[i] : i \in 1..Len(chosen)} THEN chosen ELSE PathDir \o chosen
        IN  IF name = <<>>
            THEN rcmd.raised = Some("ValueError") /\ rcmd.value = None
            ELSE IF path \in rcmd.installed
            THEN rcmd.raised = None /\ rcmd.value = Some(path)
            ELSE rcmd.raised = Some("FileNotFoundError") /\ rcmd.value = None

C25_Witness ==
    /\ rcmd.pc = "returned"
    /\ rcmd.executable = <<"c", "-", "n">>
    /\ <<"PDUM_CRIU_", "C", "_", "N">> \in DOMAIN rcmd.environ
    /\ rcmd.environ[<<"PDUM_CRIU_", "C", "_", "N">>] = <<"a", " ">>
    /\ rcmd.installed = {PathDir \o <<"c", "-", "n">>}
    /\ rcmd.raised = Some("FileNotFoundError")

(* ------------------------------------------------------------------ *)
(* The doctor command (cli.py)                                         *)
(* ------------------------------------------------------------------ *)

\* str.startswith
startswith(t, prefix) == Len(t) >= Len(prefix) /\ SubSeq(t, 1, Len(prefix)) = prefix

\* The labels of the checks, in the order of the list in doctor.
CheckLabels == <<"Password-less sudo", "CRIU", "pgrep">>

\* Faulty variant: all_ok keeps the result of the latest check only.
check_step_last(st, label, checker) ==
    LET ok == IF checker.raises THEN FALSE ELSE Truthy(checker.value)
    IN  [ called  |-> Append(st.called, label),
          printed |-> Append(st.printed, <<IF ok THEN "pass" ELSE "fail", label>>),
          all_ok  |-> ok ]

\* One iteration of the loop over the checks: the checker is called, a raised
\* exception or a falsy value makes the check fail, and all_ok is updated.
check_step(st, label, checker) ==
    LET ok == IF checker.raises THEN FALSE ELSE Truthy(checker.value)
    IN  [ called  |-> Append(st.called, label),
          printed |-> Append(st.printed, <<IF ok THEN "pass" ELSE "fail", label>>),
          all_ok  |-> st.all_ok /\ ok ]

\* for label, checker in checks: ...
RECURSIVE run_checks(_, _, _)
run_checks(checkers, i, st) ==
    IF i > Len(checkers) THEN st
    ELSE run_checks(checkers, i + 1, check_step(st, CheckLabels[i], checkers[i]))

\* doctor: what it calls and prints, and the exit code of the command.
doctor(platform, checkers) ==
    IF ~startswith(platform, <<"linux">>)
    THEN [ called |-> <<>>, all_ok |-> TRUE, printed |-> << <<"unsupported", platform>> >>,
           code |-> Some(1) ]
    ELSE LET st == run_checks(checkers, 1, [called |-> <<>>, printed |-> << <<"running">> >>,
                                            all_ok |-> TRUE])
         IN  [ called |-> st.called, all_ok |-> st.all_ok,
               printed |-> Append(st.printed, IF st.all_ok THEN <<"all passed">>
                                              ELSE <<"resolve failed">>),
               code |-> Some(0) ]

\* sys.platform
Platforms == { <<"linux">>, <<"linux", "2">>, <<"darwin">>, <<"win32">> }

\* What a checker may do when called: raise, or return True, False, None, an
\* empty string or a path.
CheckerOutcomes ==
    { [raises |-> TRUE, value |-> JNull] } \cup
    { [raises |-> FALSE, value |-> v] :
        v \in {JNum(1), JNum(0), JNull, JText(<<>>), JText(<<"/", "b", "/", "t">>)} }

InitDoctor ==
    /\ Quiet
    /\ rcmd = NoResolve
    /\ cshow = NoCrit
    /\ beam = NoBeam
    /\ \E pf \in Platforms, cs \in [1..3 -> CheckerOutcomes] :
          drun = [NoDoctor EXCEPT !.pc = "invoked", !.platform = pf, !.checkers = cs]

\* One run of the doctor command.
Doctor ==
    /\ drun.pc = "invoked"
    /\ LET d == doctor(drun.platform, drun.checkers)
       IN  drun' = [drun EXCEPT !.pc = "exited", !.called = d.called, !.all_ok = d.all_ok,
                                !.printed = d.printed, !.code = d.code]
    /\ UNCHANGED <<resumeVars, storeVars, freezeVars, rcmd, cshow, beam>>

SpecDoctor == InitDoctor /\ [][Doctor]_vars

\* C26: on a platform that is not Linux the doctor command exits with code 1
\* and runs no check; on Linux it runs the three checks sudo, CRIU and pgrep
\* even after one has failed or raised, reports that all checks passed exactly
\* when every checker returned a truthy value, and exits with code 0 whether
\* the checks passed or not.
C26_Doctor ==
    drun.pc = "exited" =>
        IF drun.platform \in {<<"linux">>, <<"linux", "2">>}
        THEN /\ drun.called = <<"Password-less sudo", "CRIU", "pgrep">>
             /\ (\E i \in DOMAIN drun.printed : drun.printed[i] = <<"all passed">>)
                    <=> \A i \in 1..3 :
                            /\ ~drun.checkers[i].raises
                            /\ drun.checkers[i].value \in {JNum(1), JText(<<"/", "b", "/", "t">>)}
             /\ drun.code = Some(0)
        ELSE /\ drun.called = <<>>
             /\ drun.code = Some(1)

C26_Witness ==
    /\ drun.pc = "exited"
    /\ drun.platform = <<"linux">>
    /\ drun.checkers[1].raises
    /\ drun.checkers[2].value = JNull
    /\ drun.checkers[3].value = JText(<<"/", "b", "/", "t">>)
    /\ drun.called = <<"Password-less sudo", "CRIU", "pgrep">>
    /\ drun.printed[Len(drun.printed)] = <<"resolve failed">>
    /\ drun.code = Some(0)

(* ------------------------------------------------------------------ *)
(* The stages of a resume attempt                                      *)
(* ------------------------------------------------------------------ *)

\* C27: a resume attempt moves only along Built -> Invoking -> {Succeeded,
\* Failed} and Succeeded -> AwaitingPid -> {PidObtained, PidTimeout}. The
\* attempt is Built once _prepare_stdio_pipes has returned, Invoking inside
\* _run_criu_restore, Succeeded at its return and AwaitingPid inside
\* _wait_for_pidfile. A step from Built to Failed is a launch that fails inside
\* _run_criu_restore before the engine runs. Polling starts only after the
\* engine exited with status 0 and with every donated end closed, and nothing
\* leaves PidObtained, Failed or PidTimeout.
C27_ResumeStateMachine ==
    [][\A r \in Calls :
          LET StageOf(pcv, pipesv, pidv, errv) ==
                  IF pipesv = None THEN "NotBuilt"
                  ELSE IF pidv # None THEN "PidObtained"
                  ELSE IF pcv = "built" THEN "Built"
                  ELSE IF pcv = "invoking" THEN "Invoking"
                  ELSE IF pcv = "awaiting" THEN "AwaitingPid"
                  ELSE IF errv # None /\ The(errv).kind = "PidTimeout" THEN "PidTimeout"
                  ELSE "Failed"
              a == StageOf(pc[r], pipes[r], pid[r], error[r])
              b == StageOf(pc'[r], pipes'[r], pid'[r], error'[r])
          IN  /\ a # b =>
                    \/ a = "NotBuilt" /\ b = "Built"
                    \/ a = "Built" /\ b = "Invoking" /\ engine'[r].state = "running"
                    \/ a = "Built" /\ b = "Failed" /\ engine'[r].runs = 0
                    \/ a = "Invoking" /\ b = "Failed" /\ engine'[r].status \notin {None, Some(0)}
                    \/ a = "Invoking" /\ b = "AwaitingPid" /\ engine'[r].status = Some(0)
                    \/ a = "AwaitingPid" /\ b = "PidObtained"
                    \/ a = "AwaitingPid" /\ b = "PidTimeout"
              /\ b = "AwaitingPid" =>
                    /\ engine'[r].state = "exited"
                    /\ engine'[r].status = Some(0)
                    /\ alloc'[r].donated # {}
                    /\ alloc'[r].donated \subseteq alloc'[r].closed
                    /\ a # b => polls'[r] = 0
              /\ a \in {"PidObtained", "Failed", "PidTimeout"} =>
                    /\ b = a
                    /\ pid'[r] = pid[r]
                    /\ a # "PidObtained" => pc'[r] = "failed" /\ error'[r] = error[r]]_vars

C27_Witness ==
    /\ Failed(1, "PidTimeout")
    /\ engine[1].status = Some(0)
    /\ alloc[1].donated \subseteq alloc[1].closed
    /\ pc[2] = "done"
    /\ pid[2] # None
    /\ alloc[2].donated # {}
    /\ alloc[2].donated \subseteq alloc[2].closed

(* ------------------------------------------------------------------ *)
(* Progress of a resume attempt                                        *)
(* ------------------------------------------------------------------ *)

\* The attempt whose progress is followed.
LiveCalls == {r \in Calls : r <= 1}

NextLive ==
    \E r \in LiveCalls :
        \/ ThawBegin(r)
        \/ PrepareStdioPipes(r)
        \/ RunCriuRestore(r)
        \/ EngineExit(r)
        \/ WaitForPidfile(r)

\* The calling thread or task keeps executing: subprocess.run is started, the
\* engine invocation completes, and every time.sleep of the polling loop returns.
SpecLive ==
    /\ Init
    /\ [][NextLive]_vars
    /\ \A r \in LiveCalls :
          /\ WF_vars(RunCriuRestore(r))
          /\ WF_vars(EngineExit(r))
          /\ WF_vars(WaitForPidfile(r))

\* C28: a resume attempt terminates. Once the substrate is built and provided
\* the engine invocation completes, the attempt reaches PidObtained, Failed or
\* PidTimeout; the polling loop never runs past its timeout, whether the
\* pidfile never appears, holds something that is not an integer, or holds an
\* integer.
C28_AttemptTerminates ==
    /\ \A r \in LiveCalls :
          (pc[r] \in {"built", "invoking", "awaiting"}) ~> (pid[r] # None \/ pc[r] = "failed")
    /\ [](\A r \in LiveCalls : polls[r] <= PollLimit)
    /\ [](\A r \in LiveCalls : pc[r] = "awaiting" /\ polls[r] > 0 => read_pidfile(files[The(ctx[r]).pidfile]) = None)

C28_Witness ==
    /\ Failed(1, "PidTimeout")
    /\ polls[1] = PollLimit
    /\ files[The(ctx[1]).pidfile] = Some(<<"x">>)
    /\ pid[1] = None

(* ------------------------------------------------------------------ *)
(* Layout of the substrate                                             *)
(* ------------------------------------------------------------------ *)

\* C29: building the substrate makes exactly three pipes, six pairwise
\* distinct descriptors; of the stdin pipe the read end is donated and the
\* write end retained, of the stdout and of the stderr pipe the write end is
\* donated and the read end retained; the donated and the retained sets are
\* disjoint, have three members each, and every donated end is inheritable.
C29_SubstrateLayout ==
    \A r \in Calls :
        pc[r] = "built" =>
            LET p == The(pipes[r])
                m == alloc[r].made
                ends == UNION {{m[i][1], m[i][2]} : i \in DOMAIN m}
            IN  /\ Len(m) = 3
                /\ Cardinality(ends) = 6
                /\ ends \subseteq open
                /\ p.child_fds = <<m[1][1], m[2][2], m[3][2]>>
                /\ p.parent_stdin_fd = Some(m[1][2])
                /\ p.parent_stdout_fd = Some(m[2][1])
                /\ p.parent_stderr_fd = Some(m[3][1])
                /\ ChildFds(p) \cap ParentFds(p) = {}
                /\ Cardinality(ChildFds(p)) = 3
                /\ Cardinality(ParentFds(p)) = 3
                /\ ChildFds(p) \subseteq inheritable
                /\ ParentFds(p) \cap inheritable = {}

C29_Witness ==
    /\ pc[1] = "built"
    /\ pc[2] = "built"
    /\ Cardinality(ChildFds(The(pipes[1])) \cup ChildFds(The(pipes[2]))) = 6
    /\ ChildFds(The(pipes[1])) \cup ChildFds(The(pipes[2])) \subseteq inheritable

\* C30: the substrate holds exactly three inheritance instructions, in the
\* order stdin, stdout, stderr, each binding the donated descriptor of a stream
\* to the pipe identity of the same stream in the triple, and all three are
\* appended to the invocation of the restore engine.
C30_InheritanceInstructions ==
    \A r \in Calls :
        /\ pc[r] = "built" =>
              LET p == The(pipes[r])
                  ids == The(ctx[r]).pipe_ids
              IN  /\ Len(p.inherit_args) = 3
                  /\ \A i \in 1..3 : p.inherit_args[i] = <<p.child_fds[i], ids[StreamNames[i]]>>
        /\ engine[r].state = "running" =>
              LET p == The(pipes[r])
                  ids == The(ctx[r]).pipe_ids
              IN  /\ Len(engine[r].inherit_args) = 3
                  /\ \A i \in 1..3 :
                        engine[r].inherit_args[i] = <<engine[r].pass_fds[i], ids[StreamNames[i]]>>
                  /\ engine[r].pass_fds = <<alloc[r].made[1][1], alloc[r].made[2][2],
                                            alloc[r].made[3][2]>>

C30_Witness ==
    /\ engine[1].state = "running"
    /\ engine[2].state = "running"
    /\ Len(engine[1].inherit_args) = 3
    /\ engine[1].inherit_args[2][2] # engine[1].inherit_args[3][2]
    /\ engine[1].inherit_args[1][1] # engine[2].inherit_args[1][1]

(* ------------------------------------------------------------------ *)
(* The invocation of the restore engine                                *)
(* ------------------------------------------------------------------ *)

\* C31: while the restore engine runs it has been passed exactly the three
\* donated descriptors and no retained one, the three are open descriptors of
\* the call, and the close-from threshold is strictly greater than each of them.
C31_EnginePassThrough ==
    \A r \in Calls :
        engine[r].state = "running" =>
            LET passed == {engine[r].pass_fds[i] : i \in DOMAIN engine[r].pass_fds}
                m == alloc[r].made
            IN  /\ Len(engine[r].pass_fds) = 3
                /\ passed = {m[1][1], m[2][2], m[3][2]}
                /\ passed \cap {m[1][2], m[2][1], m[3][1]} = {}
                /\ passed \subseteq open
                /\ \A fd \in passed : owner[fd] = r
                /\ passed \cap alloc[r].closed = {}
                /\ engine[r].closefrom # None
                /\ \A fd \in passed : The(engine[r].closefrom) > fd

C31_Witness ==
    /\ engine[1].state = "running"
    /\ engine[2].state = "exited"
    /\ engine[1].closefrom # None
    /\ The(engine[1].closefrom) > 9
    /\ Len(engine[1].pass_fds) = 3

(* ------------------------------------------------------------------ *)
(* The image-introspection call (_crit_show_json)                      *)
(* ------------------------------------------------------------------ *)

\* candidate_args: the argument lists tried, in this order, for image img.
candidate_args(img) ==
    << <<"show", "-i", img, "--pretty">>,
       <<"show", "-i", img, "--format", "json">>,
       <<"show", "-i", img, "-f", "json">>,
       <<"show", img, "--format", "json">>,
       <<"show", img, "-f", "json">>,
       <<"show", img>> >>

\* What one run of the tool may give for the n-th argument list: a usage error
\* on stderr, an error printed on stdout only, a failure that prints nothing,
\* status 0 with output cut short, status 0 with a JSON document.
CritResult(kind, n) ==
    CASE kind = "stderr" -> [returncode |-> 1, stdout |-> <<>>, stderr |-> <<JStr("usage"), JInt(n)>>]
      [] kind = "stdout" -> [returncode |-> 1, stdout |-> <<JStr("unknown option"), JInt(n)>>, stderr |-> <<>>]
      [] kind = "silent" -> [returncode |-> 2, stdout |-> <<>>, stderr |-> <<>>]
      [] kind = "cut"    -> [returncode |-> 0, stdout |-> <<JOpen, JKey("entries")>>, stderr |-> <<>>]
      [] OTHER           -> [returncode |-> 0, stdout |-> <<JOpen, JKey("entries"), JInt(n), JClose>>,
                             stderr |-> <<>>]

CritKinds == {"stderr", "stdout", "silent", "cut", "json"}

\* Faulty variant: the first error is kept, later ones are dropped.
crit_step_first(result, last_error) ==
    IF result.returncode # 0
    THEN [returned |-> FALSE, value |-> EmptyDict,
          last_error |-> IF last_error # None THEN last_error
                         ELSE Some(IF result.stderr # <<>> THEN result.stderr ELSE result.stdout)]
    ELSE IF json_loads(result.stdout).raised
    THEN [returned |-> FALSE, value |-> EmptyDict,
          last_error |-> IF last_error # None THEN last_error ELSE Some(<<JStr("JSONDecodeError")>>)]
    ELSE [returned |-> TRUE, value |-> json_loads(result.stdout).val, last_error |-> last_error]

\* The body of the loop of _crit_show_json on the result of one run: a
\* non-zero status keeps result.stderr or result.stdout and continues, output
\* that json.loads rejects keeps str(exc) and continues, anything else returns.
crit_step(result, last_error) ==
    IF result.returncode # 0
    THEN [returned |-> FALSE, value |-> EmptyDict,
          last_error |-> Some(IF result.stderr # <<>> THEN result.stderr ELSE result.stdout)]
    ELSE IF json_loads(result.stdout).raised
    THEN [returned |-> FALSE, value |-> EmptyDict, last_error |-> Some(<<JStr("JSONDecodeError")>>)]
    ELSE [returned |-> TRUE, value |-> json_loads(result.stdout).val, last_error |-> last_error]

\* for args in candidate_args, from the n-th on; ran lists the runs made.
RECURSIVE crit_loop(_, _, _, _)
crit_loop(tool, n, last_error, ran) ==
    IF n > Len(candidate_args("img"))
    THEN [raised |-> TRUE, value |-> EmptyDict, ran |-> ran,
          message |-> IF last_error # None /\ The(last_error) # <<>> THEN The(last_error)
                      ELSE <<JStr("unknown error")>>]
    ELSE LET st == crit_step(tool[n], last_error)
         IN  IF st.returned
             THEN [raised |-> FALSE, value |-> st.value, ran |-> Append(ran, candidate_args("img")[n]),
                   message |-> <<>>]
             ELSE crit_loop(tool, n + 1, st.last_error, Append(ran, candidate_args("img")[n]))

\* _crit_show_json
crit_show_json(tool) == crit_loop(tool, 1, None, <<>>)

InitCrit ==
    /\ Quiet
    /\ rcmd = NoResolve
    /\ drun = NoDoctor
    /\ beam = NoBeam
    /\ \E kinds \in [1..6 -> CritKinds] :
          cshow = [NoCrit EXCEPT !.pc = "called", !.tool = [n \in 1..6 |-> CritResult(kinds[n], n)]]

\* One call of _crit_show_json.
CritShowJson ==
    /\ cshow.pc = "called"
    /\ LET c == crit_show_json(cshow.tool)
       IN  cshow' = [cshow EXCEPT !.pc = "returned", !.ran = c.ran, !.raised = c.raised,
                                  !.value = c.value, !.message = c.message]
    /\ UNCHANGED <<resumeVars, storeVars, freezeVars, rcmd, drun, beam>>

SpecCrit == InitCrit /\ [][CritShowJson]_vars

\* C32: the introspection call runs its variants in the order of the list; it
\* returns the parsed output of the first variant that exits 0 with output
\* that parses and runs no later variant; when every variant fails it raises an
\* error whose message is that of the last failure ("unknown error" when the
\* last failure printed nothing).
C32_VariantsInOrder ==
    cshow.pc = "returned" =>
        LET good == {n \in 1..6 : cshow.tool[n].returncode = 0
                                    /\ cshow.tool[n].stdout = <<JOpen, JKey("entries"), JInt(n), JClose>>}
            upto == IF good = {} THEN 6 ELSE CHOOSE n \in good : \A m \in good : n <= m
            last == cshow.tool[6]
        IN  /\ cshow.ran = SubSeq(candidate_args("img"), 1, upto)
            /\ IF good # {}
               THEN /\ ~cshow.raised
                    /\ cshow.value = ("entries" :> upto)
               ELSE /\ cshow.raised
                    /\ cshow.message =
                          IF last.returncode = 0 THEN <<JStr("JSONDecodeError")>>
                          ELSE IF last.stderr # <<>> THEN last.stderr
                          ELSE IF last.stdout # <<>> THEN last.stdout
                          ELSE <<JStr("unknown error")>>

C32_Witness ==
    /\ cshow.pc = "returned"
    /\ cshow.tool[1].returncode = 1
    /\ cshow.tool[2].returncode = 0
    /\ cshow.tool[2].stdout = <<JOpen, JKey("entries")>>
    /\ cshow.tool[3].returncode = 0
    /\ cshow.value = ("entries" :> 3)
    /\ Len(cshow.ran) = 3

(* ------------------------------------------------------------------ *)
(* Unwinding when a close fails                                        *)
(* ------------------------------------------------------------------ *)

\* The resume call that is unwound.
UnwindCalls == {r \in Calls : r <= 1}

\* The descriptors of the pipes made for call r.
EndsOf(r) == UNION {{alloc[r].made[i][1], alloc[r].made[i][2]} : i \in DOMAIN alloc[r].made}

\* Other code of the process closes a descriptor of the substrate behind its
\* back, once: the os.close of the substrate on it will raise OSError.
ForeignClose(r) ==
    /\ pc[r] \in {"built", "invoking", "awaiting"}
    /\ EndsOf(r) \ alloc[r].closed \subseteq open
    /\ \E fd \in EndsOf(r) \cap open :
          /\ open' = open \ {fd}
          /\ inheritable' = inheritable \ {fd}
          /\ owner' = [d \in open \ {fd} |-> owner[d]]
    /\ UNCHANGED <<pc, mode, ctx, pipes, streams, handle, error, engine, pid, polls, trace, closes,
                   alloc, files, clock, loop, otherTask, storeVars, freezeVars, toolVars>>

NextUnwind ==
    \E r \in UnwindCalls :
        \/ ThawBegin(r)
        \/ PrepareStdioPipes(r)
        \/ RunCriuRestore(r)
        \/ EngineExit(r)
        \/ WaitForPidfile(r)
        \/ ForeignClose(r)

SpecUnwind == Init /\ [][NextUnwind]_vars

\* C33: an error of os.close on one descriptor during the unwind is not
\* propagated. Once the call has failed after its substrate was built, every
\* retained end is closed, also those after the one whose close failed, the
\* substrate records no retained end, and the error of the call is the primary
\* failure of the resume.
C33_SecondaryErrorSwallowed ==
    \A r \in UnwindCalls :
        (pc[r] = "failed" /\ pipes[r] # None) =>
            /\ The(error[r]).kind \in {"SudoCloseFromUnsupported", "LaunchFailed", "EngineFailed",
                                       "PidTimeout"}
            /\ ParentFds(The(pipes[r])) = {}
            /\ alloc[r].retained \cap open = {}
            /\ alloc[r].retained \subseteq alloc[r].closed

C33_Witness ==
    /\ Failed(1, "EngineFailed")
    /\ alloc[1].errored = {alloc[1].made[1][2]}
    /\ alloc[1].retained \cap open = {}
    /\ ParentFds(The(pipes[1])) = {}

(* ------------------------------------------------------------------ *)
(* Closing the handle of an asynchronous resume                        *)
(* ------------------------------------------------------------------ *)

\* C34: once close() of the handle of a successful asynchronous resume has
\* completed, none of the three retained descriptors (the write end of stdin,
\* the read ends of stdout and stderr) is open in the calling process.
C34_AsyncCloseReleasesAll ==
    \A r \in CloseCalls :
        (pc[r] = "done" /\ mode[r] = "async" /\ CloseOrder("async")[1] \in closes[r].closed) =>
            /\ alloc[r].retained # {}
            /\ alloc[r].retained \cap OpenOf(r) = {}

(* ------------------------------------------------------------------ *)
(* The beam command (cli.py)                                           *)
(* ------------------------------------------------------------------ *)

\* _run_command on the wait status of os.system: the exit status of a command
\* that exited, minus the signal number of one that was killed.
run_command(status) == IF status % 128 = 0 THEN (status \div 256) % 256 ELSE -(status % 128)

\* Wait statuses of a phase: exit 0, exit 1, exit 2, killed by signal 9.
WaitStatuses == {0, 256, 512, 9}

\* The process id of the command itself (os.getpid()).
OwnPid == 5

\* How the command ends: typer.Exit(code) and a normal return give the exit
\* code, an exception nothing catches ends the command with exit code 1.
BeamExit(ran, code) == [ran |-> ran, code |-> Some(code), raised |-> None, watcher |-> None]

BeamCrash(ran, kind) == [ran |-> ran, code |-> Some(1), raised |-> Some(kind), watcher |-> None]

\* The report of a failed phase: utils.tail_file is called outside any try
\* block, then typer.Exit carries the exit code of the phase.
phase_failed(ran, exit_code, read) ==
    IF read # "ok" THEN BeamCrash(ran, read) ELSE BeamExit(ran, exit_code)

\* shell_beam with _execute_restore: the phases run, the exit code, the
\* exception that ended the command if one did, and the process the cleanup
\* watcher waits for.
shell_beam(in) ==
    IF ~in.linux THEN BeamExit(<<>>, 1)
    ELSE IF in.target = "ValueError" THEN BeamExit(<<>>, 2)
    ELSE IF in.target = "RuntimeError" THEN BeamExit(<<>>, 1)
    ELSE IF in.tools # "ok" THEN BeamExit(<<>>, 1)
    ELSE LET exit_code == run_command(in.freeze_status)
         IN  IF exit_code # 0 THEN phase_failed(<<"freeze">>, exit_code, in.freeze_log)
             ELSE IF in.restore_tools # "ok" THEN BeamExit(<<"freeze">>, 1)
             ELSE LET restore_exit == run_command(in.restore_status)
                  IN  IF restore_exit # 0
                      THEN phase_failed(<<"freeze", "restore">>, restore_exit, in.restore_log)
                      ELSE IF in.cleanup
                      THEN [ran |-> <<"freeze", "restore", "cleanup">>, code |-> Some(0),
                            raised |-> None,
                            watcher |-> IF in.thaw_pid # None /\ The(in.thaw_pid) # 0
                                        THEN in.thaw_pid ELSE Some(OwnPid)]
                      ELSE BeamExit(<<"freeze", "restore">>, 0)

\* The options of the command and what its environment does.
BeamInputs ==
    [ linux : BOOLEAN,
      target : {"ok", "ValueError", "RuntimeError"},
      tools : {"ok", "missing"},
      freeze_status : WaitStatuses,
      freeze_log : LogReads,
      restore_tools : {"ok", "missing"},
      restore_status : WaitStatuses,
      restore_log : LogReads,
      cleanup : BOOLEAN,
      thaw_pid : {None, Some(7)} ]

InitBeam ==
    /\ Quiet
    /\ rcmd = NoResolve
    /\ drun = NoDoctor
    /\ cshow = NoCrit
    /\ \E in \in BeamInputs : beam = [NoBeam EXCEPT !.pc = "invoked", !.input = in]

\* One run of the beam command.
Beam ==
    /\ beam.pc = "invoked"
    /\ LET b == shell_beam(beam.input)
       IN  beam' = [beam EXCEPT !.pc = "exited", !.ran = b.ran, !.code = b.code,
                                !.raised = b.raised, !.watcher = b.watcher]
    /\ UNCHANGED <<resumeVars, storeVars, freezeVars, rcmd, drun, cshow>>

SpecBeam == InitBeam /\ [][Beam]_vars

\* C35: the phases of the beam command are strictly ordered. The restore is
\* attempted only if the freeze exited 0; the cleanup watcher is spawned only
\* after freeze and restore both exited 0 and cleanup is enabled; when a phase
\* fails the command exits with the exit code of that phase and runs no later
\* phase.
C35_BeamPhasesOrdered ==
    beam.pc = "exited" =>
        LET ran == {beam.ran[i] : i \in DOMAIN beam.ran}
            fz_st == beam.input.freeze_status
            rs_st == beam.input.restore_status
        IN  /\ "restore" \in ran => "freeze" \in ran /\ fz_st = 0
            /\ "cleanup" \in ran => /\ "restore" \in ran
                                    /\ fz_st = 0
                                    /\ rs_st = 0
                                    /\ beam.input.cleanup
            /\ ("freeze" \in ran /\ fz_st \in {256, 512}) =>
                  /\ beam.code = Some(fz_st \div 256)
                  /\ beam.ran = <<"freeze">>
            /\ ("restore" \in ran /\ rs_st \in {256, 512}) =>
                  /\ beam.code = Some(rs_st \div 256)
                  /\ beam.ran = <<"freeze", "restore">>

====
